---- MODULE Spec2Model ----
(***************************************************************************)
(* Verification model of srvfb: the idle-aware listener (listener.Accept, *)
(* conn.Close, wrapListener), the frame deduper (deduper.skip), the       *)
(* stored-block PNG encoder (WritePNG, writeIDAT, flateWriter), the       *)
(* handlers (ServeHTTP, serveRaw, serveVideo), the reader of the raw      *)
(* frame protocol (dialProxy, readHdr, proxyconn.readImage) and the       *)
(* shared capture buffer of the earlier program (context.read, forEach).  *)
(***************************************************************************)
EXTENDS Integers, Sequences, FiniteSets, TLC

(* ---------------------------------------------------------------------- *)
(* Bounds of the model                                                    *)
(* ---------------------------------------------------------------------- *)

\* inbound connections that arrive over the life of the listener
MaxConns == 2
\* largest idle timeout (in clock ticks) the -idle flag is drawn from
MaxTimeout == 2
\* how many times Close is invoked on one connection
MaxCloses == 2

\* the largest value of the uint32 counter listener.active; TLC integers are
\* 32-bit signed, so the top of the range stands for 2^32 - 1
MaxUint32 == 2147483647

Conns == 1..MaxConns

\* time.Time{} : no deadline in force
NoDeadline == -1

\* the values an Accept call can return as its error
errIdle == "errIdle"
\* errors of the underlying TCPListener.Accept: a timeout (net.Error with
\* Timeout() true), a net.Error with Timeout() false, and an error value that
\* does not implement Timeout() at all
ErrTimeout == "i/o timeout"
ErrTemporary == "too many open files"
ErrOpaque == "use of closed network connection"
OtherErrs == {ErrTemporary, ErrOpaque}

VARIABLES
    isTCP,      \* whether l is a *net.TCPListener (net.Listen) or not (net.FileListener)
    timeout,    \* the -idle flag, in clock ticks
    acceptMu,   \* listener.acceptMu : TRUE while held
    active,     \* listener.active
    deadline,   \* ticks left until the listener's deadline, NoDeadline if none
    pc,         \* where the goroutine of http.Serve is in Accept
    cur,        \* the connection the running Accept got from the underlying accept
    uerr,       \* the error the underlying accept returned to the running Accept
    result,     \* what the last Accept call returned: "none", "ok" or an error
    backlog,    \* inbound connections waiting in the kernel's accept queue
    arrived,    \* inbound connections so far
    cstate,     \* per connection: "none", "open" (returned by Accept)
    closeCalls, \* per connection: Close calls so far
    onceDone,   \* per connection: conn.o has run its function
    reinst,     \* per connection: Close calls between the decrement and SetDeadline
    hookRuns,   \* per connection: how many times the function in conn.o ran
    incs,       \* how many times Accept incremented active
    sinceZero   \* ticks since active was last decremented to zero, -1 if never

lvars == <<isTCP, timeout, acceptMu, active, deadline, pc, cur, uerr, result,
           backlog, arrived, cstate, closeCalls, onceDone, reinst, hookRuns,
           incs, sinceZero>>

VARIABLES
    h1,     \* deduper.h1, a uint32 as <<high 16 bits, low 16 bits>>
    h2,     \* deduper.h2
    fed,    \* the hashes of the frames given to skip so far, oldest first
    skips   \* the results skip returned for them

dvars == <<h1, h2, fed, skips>>

VARIABLES
    im,         \* the *image.Gray16: [W, H, Stride, Pix]
    out,        \* the bytes written to the sink so far
    ppc,        \* where WritePNG is
    i,          \* writeIDAT's loop index into im.Pix
    block,      \* flateWriter.block
    total,      \* flateWriter.total
    content,    \* the bytes written to zlibContent so far
    chunkSum,   \* the running CRC-32 of the IDAT chunk
    zlibSum     \* the running Adler-32 of the content: <<a, b>>

pvars == <<im, out, ppc, i, block, total, content, chunkSum, zlibSum>>

\* the connections the server's handlers serve at the same time
Streams == {1, 2}

VARIABLES
    mode,       \* "device" (h.fb set, -device) or "proxy" (h.fb nil, -proxy)
    geo,        \* the framebuffer: VarScreeninfo, Line_length and len(d.mmap)
    screens,    \* the contents the framebuffer shows over time, as seeds
    req,        \* per connection: the request [method, path], or no request
    spc,        \* per connection: where its handler goroutine is
    status,     \* per connection: the response the handler started
    sim,        \* per connection: the handler's im, as [Pix, Stride, Dx, Dy]
    sdedup,     \* per connection: the handler's deduper, as [h1, h2]
    wire,       \* per connection: the multipart parts written to w so far
    flushed,    \* per connection: flusher.Flush calls so far
    broken,     \* per connection: a write to w has failed, as every later one will
    stalled,    \* per connection: the client has stopped reading for good
    mark,       \* per connection: the other handlers' flushes when it stalled
    failed,     \* per connection: a read, a part creation or a write has failed
    afterFail   \* per connection: reads, parts and flushes since the first failure

svars == <<mode, geo, screens, req, spc, status, sim, sdedup, wire, flushed,
           broken, stalled, mark, failed, afterFail>>

VARIABLES
    peer,       \* what the proxy dials: "srvfb" (connection 1's /raw) or "foreign"
    fwire,      \* the parts a foreign peer has sent
    fclosed,    \* the foreign peer has ended the body
    resp,       \* the Content-Type header of the response http.Get returned
    rstate,     \* the proxy's connection: "unconnected", "header", "frames", "closed"
    rc,         \* the proxyconn: [width, height], 0 0 until readHdr records them
    rhdr,       \* the rawHeader readHdr decoded, its zero value before
    rim,        \* the caller's im, as [Pix, Stride, Rect]
    rerr,       \* the error the last dialProxy or readImage returned, "nil" if none
    rpos,       \* how many parts NextPart has returned
    bodyClosed, \* resp.Body.Close() was called
    dialed,     \* what dialProxy returned: "pending", "conn" or "nil"
    rlast       \* what the last parts read were: "hdr" or "frame", oldest first

rvars == <<peer, fwire, fclosed, resp, rstate, rc, rhdr, rim, rerr, rpos, bodyClosed,
           dialed, rlast>>

VARIABLES
    fim,        \* the lengths of the *image.Gray16: [pix, stride, dy]
    fpc,        \* where writeIDAT is
    fi,         \* writeIDAT's loop index into im.Pix
    fw,         \* the flateWriter: [block, total]
    fblocks,    \* the stored blocks opened so far: [len, got, prevFull]
    fdeclared,  \* the length writeIDAT declared for the chunk
    fpayload,   \* bytes the sink accepted after the chunk's type tag
    fsink,      \* the sink: "ok", or "failing" once its writes return an error
    ferrs       \* how many Write calls have returned an error so far

fvars == <<fim, fpc, fi, fw, fblocks, fdeclared, fpayload, fsink, ferrs>>

VARIABLES
    hold,       \* per connection: the frame in im: "none", "fresh" (read),
                \* "emitted" (written to a part) or "flushed"
    disorder    \* per connection: a frame was written twice, or a frame was
                \* read while the part before it was not flushed

gvars == <<hold, disorder>>

VARIABLES
    bn,         \* context.n: the consumers running forEach
    bb,         \* context.b, as the number of the capture it holds, 0 if nil
    bcaps,      \* the captures context.read has made so far
    bwriter,    \* context.mu is held by context.read
    breaders,   \* the consumers holding context.mu for reading
    bwait,      \* the consumers on the notify list of context.c
    bpc,        \* per consumer: where forEach is
    blocal,     \* per consumer: forEach's b, as the number of a capture
    bemit,      \* per consumer: the captures f wrote to the client, in order
    tpc         \* where the loop of context.read is

bvars == <<bn, bb, bcaps, bwriter, breaders, bwait, bpc, blocal, bemit, tpc>>

vars == <<lvars, dvars, pvars, svars, rvars, fvars, gvars, bvars>>

\* what the listener's steps leave alone, and likewise for the others
notListener == <<dvars, pvars, svars, rvars, fvars, gvars, bvars>>
notDeduper == <<lvars, pvars, svars, rvars, fvars, gvars, bvars>>
notEncoder == <<lvars, dvars, svars, rvars, fvars, gvars, bvars>>
notHandler == <<lvars, dvars, pvars, rvars, fvars, gvars, bvars>>
notProxy == <<lvars, dvars, pvars, svars, fvars, gvars, bvars>>
notFlate == <<lvars, dvars, pvars, svars, rvars, gvars, bvars>>
notHandlerLog == <<lvars, dvars, pvars, rvars, fvars, bvars>>
notBroadcast == <<lvars, dvars, pvars, svars, rvars, fvars, gvars>>

(* ---------------------------------------------------------------------- *)
(* The idle-aware listener                                                *)
(* ---------------------------------------------------------------------- *)

\* a wrapListener that forgets the zero-timeout test
WrapOkAlways(tcp, t) == tcp

\* wrapListener: the listener is wrapped iff it is a TCP listener and the
\* timeout is not zero; otherwise l itself is returned
WrapOk(tcp, t) == tcp /\ t /= 0

wrapped == WrapOk(isTCP, timeout)

\* atomic.AddUint32(&l.active, 1)
Inc(n) == IF n = MaxUint32 THEN 0 ELSE n + 1

\* atomic.AddUint32(&c.l.active, ^uint32(0))
Dec(n) == IF n = 0 THEN MaxUint32 ELSE n - 1

\* err.(interface{ Timeout() bool }) and to.Timeout()
IsTimeout(e) == e = ErrTimeout

\* an Accept that reports every failure as idle
MapErrAll(e) == errIdle

\* the error Accept returns for the underlying accept's error e
MapErr(e) == IF IsTimeout(e) THEN errIdle ELSE e

\* a Close without the sync.Once
OnceDoAlways(c) == TRUE

\* sync.Once.Do runs its function only on the first call
OnceDo(c) == ~onceDone[c]

\* a Close that never sets the deadline again
ReinstatesNever(n) == FALSE

\* conn.Close sets a new deadline iff its decrement brought active to zero
Reinstates(n) == n = 0

\* time.Now().Add(l.timeout), as ticks left
FreshDeadline == timeout

\* the listener run hands to http.Serve: l of the given kind, wrapped by
\* wrapListener(l, *idle), with no connection accepted yet
LStart(tcp, t) ==
    /\ isTCP = tcp
    /\ timeout = t
    /\ acceptMu = FALSE
    /\ active = 0
    /\ deadline = NoDeadline
    /\ pc = "idle"
    /\ cur = 0
    /\ uerr = "none"
    /\ result = "none"
    /\ backlog = 0
    /\ arrived = 0
    /\ cstate = [c \in Conns |-> "none"]
    /\ closeCalls = [c \in Conns |-> 0]
    /\ onceDone = [c \in Conns |-> FALSE]
    /\ reinst = [c \in Conns |-> 0]
    /\ hookRuns = [c \in Conns |-> 0]
    /\ incs = 0
    /\ sinceZero = -1

LInit == \E tcp \in BOOLEAN, t \in 0..MaxTimeout : LStart(tcp, t)

\* one tick of the clock: a deadline in force comes one tick closer
Tick ==
    /\ deadline' = IF deadline > 0 THEN deadline - 1 ELSE deadline
    /\ sinceZero' = IF sinceZero >= 0 /\ sinceZero < MaxTimeout
                    THEN sinceZero + 1 ELSE sinceZero
    /\ UNCHANGED <<isTCP, timeout, acceptMu, active, pc, cur, uerr, result,
                   backlog, arrived, cstate, closeCalls, onceDone, reinst,
                   hookRuns, incs>>
    /\ UNCHANGED notListener

\* a client connects
Arrive ==
    /\ arrived < MaxConns
    /\ arrived' = arrived + 1
    /\ backlog' = backlog + 1
    /\ UNCHANGED <<isTCP, timeout, acceptMu, active, deadline, pc, cur, uerr,
                   result, cstate, closeCalls, onceDone, reinst, hookRuns,
                   incs, sinceZero>>
    /\ UNCHANGED notListener

\* listener.Accept, l.acceptMu.Lock()
AcceptLock ==
    /\ pc = "idle"
    /\ wrapped
    /\ ~acceptMu
    /\ acceptMu' = TRUE
    /\ pc' = "check"
    /\ uerr' = "none"
    /\ UNCHANGED <<isTCP, timeout, active, deadline, cur, result, backlog,
                   arrived, cstate, closeCalls, onceDone, reinst, hookRuns,
                   incs, sinceZero>>
    /\ UNCHANGED notListener

\* listener.Accept, if atomic.LoadUint32(&l.active) == 0 { l.SetDeadline(...) }
AcceptCheck ==
    /\ pc = "check"
    /\ deadline' = IF active = 0 THEN FreshDeadline ELSE deadline
    /\ pc' = "accepting"
    /\ UNCHANGED <<isTCP, timeout, acceptMu, active, cur, uerr, result,
                   backlog, arrived, cstate, closeCalls, onceDone, reinst,
                   hookRuns, incs, sinceZero>>
    /\ UNCHANGED notListener

\* the pass-through listener: wrapListener returned l, http.Serve calls its Accept
AcceptPlain ==
    /\ pc = "idle"
    /\ ~wrapped
    /\ pc' = "accepting"
    /\ uerr' = "none"
    /\ UNCHANGED <<isTCP, timeout, acceptMu, active, deadline, cur, result,
                   backlog, arrived, cstate, closeCalls, onceDone, reinst,
                   hookRuns, incs, sinceZero>>
    /\ UNCHANGED notListener

\* the underlying accept returns a connection (its deadline has not passed)
UnderlyingOk ==
    /\ pc = "accepting"
    /\ backlog > 0
    /\ deadline /= 0
    /\ backlog' = backlog - 1
    /\ cur' = arrived - backlog + 1
    /\ pc' = IF wrapped THEN "inc" ELSE "ret"
    /\ UNCHANGED <<isTCP, timeout, acceptMu, active, deadline, uerr, result,
                   arrived, cstate, closeCalls, onceDone, reinst, hookRuns,
                   incs, sinceZero>>
    /\ UNCHANGED notListener

\* the underlying accept fails because the listener's deadline has passed
UnderlyingTimeout ==
    /\ pc = "accepting"
    /\ deadline = 0
    /\ uerr' = ErrTimeout
    /\ pc' = "fail"
    /\ UNCHANGED <<isTCP, timeout, acceptMu, active, deadline, cur, result,
                   backlog, arrived, cstate, closeCalls, onceDone, reinst,
                   hookRuns, incs, sinceZero>>
    /\ UNCHANGED notListener

\* the underlying accept fails for another reason
UnderlyingErr ==
    /\ pc = "accepting"
    /\ \E e \in OtherErrs : uerr' = e
    /\ pc' = "fail"
    /\ UNCHANGED <<isTCP, timeout, acceptMu, active, deadline, cur, result,
                   backlog, arrived, cstate, closeCalls, onceDone, reinst,
                   hookRuns, incs, sinceZero>>
    /\ UNCHANGED notListener

\* listener.Accept, atomic.AddUint32(&l.active, 1)
AcceptInc ==
    /\ pc = "inc"
    /\ active' = Inc(active)
    /\ incs' = incs + 1
    /\ pc' = "clear"
    /\ UNCHANGED <<isTCP, timeout, acceptMu, deadline, cur, uerr, result,
                   backlog, arrived, cstate, closeCalls, onceDone, reinst,
                   hookRuns, sinceZero>>
    /\ UNCHANGED notListener

\* listener.Accept, l.SetDeadline(time.Time{})
AcceptClear ==
    /\ pc = "clear"
    /\ deadline' = NoDeadline
    /\ pc' = "ret"
    /\ UNCHANGED <<isTCP, timeout, acceptMu, active, cur, uerr, result,
                   backlog, arrived, cstate, closeCalls, onceDone, reinst,
                   hookRuns, incs, sinceZero>>
    /\ UNCHANGED notListener

\* Accept returns the connection (wrapped in a conn by the idle listener) and
\* the deferred Unlock runs; http.Serve starts its handler and loops
AcceptReturnConn ==
    /\ pc = "ret"
    /\ cstate' = [cstate EXCEPT ![cur] = "open"]
    /\ result' = "ok"
    /\ acceptMu' = FALSE
    /\ pc' = "idle"
    /\ UNCHANGED <<isTCP, timeout, active, deadline, cur, uerr, backlog,
                   arrived, closeCalls, onceDone, reinst, hookRuns, incs,
                   sinceZero>>
    /\ UNCHANGED notListener

\* Accept returns an error and the deferred Unlock runs. http.Serve retries
\* after a temporary error and returns any other error to run
AcceptReturnErr ==
    /\ pc = "fail"
    /\ result' = IF wrapped THEN MapErr(uerr) ELSE uerr
    /\ acceptMu' = FALSE
    /\ pc' = IF uerr = ErrTemporary THEN "idle" ELSE "stopped"
    /\ UNCHANGED <<isTCP, timeout, active, deadline, cur, uerr, backlog,
                   arrived, cstate, closeCalls, onceDone, reinst, hookRuns,
                   incs, sinceZero>>
    /\ UNCHANGED notListener

\* a second Close on c waits in sync.Once.Do while the first still runs f
OnceBusy(c) == onceDone[c] /\ reinst[c] > 0

\* conn.Close: c.o.Do(f) up to and including the atomic decrement in f
\* (on the pass-through listener the connection is not a conn: nothing is counted)
Close(c) ==
    /\ cstate[c] = "open"
    /\ closeCalls[c] < MaxCloses
    /\ ~OnceBusy(c)
    /\ closeCalls' = [closeCalls EXCEPT ![c] = @ + 1]
    /\ IF wrapped /\ OnceDo(c)
       THEN /\ onceDone' = [onceDone EXCEPT ![c] = TRUE]
            /\ hookRuns' = [hookRuns EXCEPT ![c] = @ + 1]
            /\ active' = Dec(active)
            /\ reinst' = [reinst EXCEPT ![c] =
                              IF Reinstates(Dec(active)) THEN @ + 1 ELSE @]
            /\ sinceZero' = IF Dec(active) = 0 THEN 0 ELSE sinceZero
       ELSE UNCHANGED <<onceDone, hookRuns, active, reinst, sinceZero>>
    /\ UNCHANGED <<isTCP, timeout, acceptMu, deadline, pc, cur, uerr, result,
                   backlog, arrived, cstate, incs>>
    /\ UNCHANGED notListener

\* conn.Close: c.l.SetDeadline(time.Now().Add(c.l.timeout)) in f
CloseSetDeadline(c) ==
    /\ reinst[c] > 0
    /\ reinst' = [reinst EXCEPT ![c] = @ - 1]
    /\ deadline' = FreshDeadline
    /\ UNCHANGED <<isTCP, timeout, acceptMu, active, pc, cur, uerr, result,
                   backlog, arrived, cstate, closeCalls, onceDone, hookRuns,
                   incs, sinceZero>>
    /\ UNCHANGED notListener

(* ---------------------------------------------------------------------- *)
(* The frame deduper                                                      *)
(* ---------------------------------------------------------------------- *)

\* frames fed to one deduper
MaxFrames == 4

\* the pixel buffers the frame source delivers: 2x1 rasters of 16-bit samples
Frames == { <<204, 36, 49, 196>>, <<0, 0, 0, 0>>, <<255, 255, 0, 1>> }

RECURSIVE Xor(_, _, _)
\* bitwise exclusive or of the n-bit numbers a and b
Xor(a, b, n) ==
    IF n = 0 THEN 0
    ELSE (((a % 2) + (b % 2)) % 2) + 2 * Xor(a \div 2, b \div 2, n - 1)

\* hash/fnv: offset32 = 2166136261 = 0x811C9DC5
FnvOffset == <<33052, 40389>>

\* hash/fnv sum32a.Write for one byte: hash ^= b; hash *= prime32, where
\* prime32 = 16777619 = 0x0100 * 2^16 + 0x0193, modulo 2^32
FnvByte(h, b) ==
    LET lo == Xor(h[2], b, 16)
        low == lo * 403
        high == h[1] * 403 + lo * 256 + (low \div 65536)
    IN  <<high % 65536, low % 65536>>

RECURSIVE FnvFrom(_, _, _)
\* the hash register after the bytes b[k..] are written (the test on nx
\* makes TLC evaluate it before the recursion, here and in the other folds)
FnvFrom(h, b, k) ==
    IF k > Len(b) THEN h
    ELSE LET nx == FnvByte(h, b[k])
         IN  IF nx[1] >= 0 THEN FnvFrom(nx, b, k + 1) ELSE nx

\* d.h.Reset(); d.h.Write(b); d.h.Sum32()
Sum32(b) == FnvFrom(FnvOffset, b, 1)

\* deduper.skip: the condition under which the frame is skipped
IsDup(h, a, b) == h = a /\ h = b

DInit ==
    /\ h1 = <<0, 0>>
    /\ h2 = <<0, 0>>
    /\ fed = <<>>
    /\ skips = <<>>

\* deduper.skip(b)
Skip(b) ==
    /\ Len(fed) < MaxFrames
    /\ LET h == Sum32(b) IN
        /\ fed' = Append(fed, h)
        /\ IF IsDup(h, h1, h2)
           THEN /\ skips' = Append(skips, TRUE)
                /\ UNCHANGED <<h1, h2>>
           ELSE /\ skips' = Append(skips, FALSE)
                /\ h1' = h2
                /\ h2' = h
    /\ UNCHANGED notDeduper

(* ---------------------------------------------------------------------- *)
(* The PNG encoder                                                        *)
(* ---------------------------------------------------------------------- *)

\* rasters encoded: width 1..MaxW, height 0..MaxH, and 0..MaxPad samples of
\* padding after each scanline
MaxW == 2
MaxH == 2
MaxPad == 1
\* pixel contents are drawn from the patterns 0..MaxSeed
MaxSeed == 2

Min(a, b) == IF a < b THEN a ELSE b

\* Go's integer division, which truncates toward zero
GoDiv(a, b) == IF a >= 0 THEN a \div b ELSE -((-a) \div b)

\* binary.BigEndian.PutUint32
BE32(n) == <<n \div 16777216, (n \div 65536) % 256, (n \div 256) % 256, n % 256>>

\* a uint32 held as <<high 16 bits, low 16 bits>>, as four big-endian bytes
Limbs32(h) == <<h[1] \div 256, h[1] % 256, h[2] \div 256, h[2] % 256>>

\* the type tags, as bytes
TagIHDR == <<73, 72, 68, 82>>
TagIDAT == <<73, 68, 65, 84>>
TagIEND == <<73, 69, 78, 68>>

\* "\x89PNG\r\n\x1a\n"
Signature == <<137, 80, 78, 71, 13, 10, 26, 10>>

RECURSIVE CrcShift(_, _)
\* hash/crc32 (IEEE, reflected polynomial 0xEDB88320): k shift steps
CrcShift(c, k) ==
    IF k = 0 THEN c
    ELSE LET sh == <<c[1] \div 2, (c[2] \div 2) + (c[1] % 2) * 32768>>
             nx == IF c[2] % 2 = 1
                   THEN <<Xor(sh[1], 60856, 16), Xor(sh[2], 33568, 16)>>
                   ELSE sh
         IN  IF nx[1] >= 0 THEN CrcShift(nx, k - 1) ELSE nx

RECURSIVE CrcUpdate(_, _, _)
\* the CRC register after the bytes b[k..] are written
CrcUpdate(c, b, k) ==
    IF k > Len(b) THEN c
    ELSE LET nx == CrcShift(<<c[1], Xor(c[2], b[k], 16)>>, 8)
         IN  IF nx[1] >= 0 THEN CrcUpdate(nx, b, k + 1) ELSE nx

\* crc32.NewIEEE(): the register starts as all ones
CrcInit == <<65535, 65535>>

\* hash.Sum: the register complemented, big-endian
CrcSum(c) == Limbs32(<<65535 - c[1], 65535 - c[2]>>)

RECURSIVE AdlerUpdate(_, _, _)
\* hash/adler32: <<a, b>> after the bytes p[k..] are written
AdlerUpdate(s, p, k) ==
    IF k > Len(p) THEN s
    ELSE LET a == (s[1] + p[k]) % 65521
             nx == <<a, (s[2] + a) % 65521>>
         IN  IF nx[2] >= 0 THEN AdlerUpdate(nx, p, k + 1) ELSE nx

\* adler32.New()
AdlerInit == <<1, 0>>

\* hash.Sum: b in the high half, a in the low half
AdlerSum(s) == Limbs32(<<s[2], s[1]>>)

\* writeChunk(out, b, typ): length, tag, payload, CRC over tag and payload
writeChunk(b, typ) ==
    BE32(Len(b)) \o typ \o b \o CrcSum(CrcUpdate(CrcInit, typ \o b, 1))

\* deflateLen: nblocks := (1 + (n-1)/0xffff); return n + (nblocks+1)*5
deflateLen(n) == n + ((1 + GoDiv(n - 1, 65535)) + 1) * 5

\* the 5-byte header of a stored block of n bytes: hdr[0] = 0, LEN, ^LEN
BlockHdr(n) ==
    <<0, n % 256, n \div 256, (65535 - n) % 256, (65535 - n) \div 256>>

RECURSIVE FlateWrite(_, _, _)
\* flateWriter.Write(p) with w.block = blk and w.total = tot: the new block and
\* total and the bytes written to w.w; overflow when the recursion never ends
FlateWrite(blk, tot, p) ==
    LET nb == IF blk = 0 THEN Min(65535, tot) ELSE blk
        nt == IF blk = 0 THEN tot - nb ELSE tot
        hdr == IF blk = 0 THEN BlockHdr(nb) ELSE <<>>
    IN  IF Len(p) <= nb
        THEN [block |-> nb - Len(p), total |-> nt, w |-> hdr \o p,
              overflow |-> FALSE]
        ELSE IF nb = 0 /\ nt = 0
        THEN [block |-> 0, total |-> 0, w |-> hdr, overflow |-> TRUE]
        ELSE LET rest == FlateWrite(0, nt, SubSeq(p, nb + 1, Len(p)))
             IN  [block |-> rest.block, total |-> rest.total,
                  w |-> hdr \o SubSeq(p, 1, nb) \o rest.w,
                  overflow |-> rest.overflow]

\* the pixel byte at index k of pattern seed
PixByte(seed, k) == (seed * 85 + k * 53 + seed * k * 7) % 256

\* a raster whose Pix holds Stride*H bytes (image.Gray16 with Rect at the origin)
Raster(w, h, pad, seed) ==
    [W |-> w, H |-> h, Stride |-> 2 * (w + pad),
     Pix |-> [k \in 1..(2 * (w + pad) * h) |-> PixByte(seed, k)]]

\* the 13 bytes of IHDR: width, height, bit depth 16, grayscale, 0, 0, 0
Ihdr(m) == BE32(m.W) \o BE32(m.H) \o <<16, 0, 0, 0, 0>>

\* WritePNG(out, m) is about to run
PStart(m) ==
    /\ im = m
    /\ out = <<>>
    /\ ppc = "sig"
    /\ i = 0
    /\ block = 0
    /\ total = 0
    /\ content = <<>>
    /\ chunkSum = CrcInit
    /\ zlibSum = AdlerInit

PInit ==
    \E w \in 1..MaxW, h \in 0..MaxH, pad \in 0..MaxPad, seed \in 0..MaxSeed :
        PStart(Raster(w, h, pad, seed))

\* WritePNG: fmt.Fprint(out, "\x89PNG\r\n\x1a\n")
WriteSignature ==
    /\ ppc = "sig"
    /\ out' = out \o Signature
    /\ ppc' = "ihdr"
    /\ UNCHANGED <<im, i, block, total, content, chunkSum, zlibSum>>
    /\ UNCHANGED notEncoder

\* WritePNG: writeChunk(out, ihdr, "IHDR")
WriteIHDR ==
    /\ ppc = "ihdr"
    /\ out' = out \o writeChunk(Ihdr(im), TagIHDR)
    /\ ppc' = "idat"
    /\ UNCHANGED <<im, i, block, total, content, chunkSum, zlibSum>>
    /\ UNCHANGED notEncoder

\* writeIDAT up to the loop: the declared length, the tag and the zlib header
WriteIDATHeader ==
    /\ ppc = "idat"
    /\ LET contentLen == Len(im.Pix) + im.H IN
        /\ total' = contentLen
        /\ block' = 0
        /\ out' = out \o BE32(6 + deflateLen(contentLen)) \o TagIDAT \o <<120, 1>>
    /\ chunkSum' = CrcUpdate(CrcInit, TagIDAT \o <<120, 1>>, 1)
    /\ zlibSum' = AdlerInit
    /\ i' = 0
    /\ ppc' = IF 0 < Len(im.Pix) THEN "filter" ELSE "close"
    /\ UNCHANGED <<im, content>>
    /\ UNCHANGED notEncoder

\* zlibContent.Write(p): flateWriter.Write(p), then zlibSum.Write(p)
ZlibWrite(p, next) ==
    LET r == FlateWrite(block, total, p) IN
    /\ block' = r.block
    /\ total' = r.total
    /\ out' = out \o r.w
    /\ chunkSum' = CrcUpdate(chunkSum, r.w, 1)
    /\ IF r.overflow
       THEN /\ ppc' = "overflow"
            /\ UNCHANGED <<content, zlibSum>>
       ELSE /\ ppc' = next
            /\ content' = content \o p
            /\ zlibSum' = AdlerUpdate(zlibSum, p, 1)

\* writeIDAT's loop: zlibContent.Write([]byte{0})
WriteFilter ==
    /\ ppc = "filter"
    /\ ZlibWrite(<<0>>, "row")
    /\ UNCHANGED <<im, i>>
    /\ UNCHANGED notEncoder

\* writeIDAT's loop: zlibContent.Write(im.Pix[i : i+im.Stride]) and i += im.Stride
WriteRow ==
    /\ ppc = "row"
    /\ i + im.Stride <= Len(im.Pix)
    /\ ZlibWrite(SubSeq(im.Pix, i + 1, i + im.Stride),
                 IF i + im.Stride < Len(im.Pix) THEN "filter" ELSE "close")
    /\ i' = i + im.Stride
    /\ UNCHANGED im
    /\ UNCHANGED notEncoder

\* flateWriter.Close: panic unless everything was written, else the final block
FlateClose ==
    /\ ppc = "close"
    /\ IF total /= 0 \/ block /= 0
       THEN /\ ppc' = "panic"
            /\ UNCHANGED <<out, chunkSum>>
       ELSE /\ ppc' = "footer"
            /\ out' = out \o <<1, 0, 0, 255, 255>>
            /\ chunkSum' = CrcUpdate(chunkSum, <<1, 0, 0, 255, 255>>, 1)
    /\ UNCHANGED <<im, i, block, total, content, zlibSum>>
    /\ UNCHANGED notEncoder

\* writeIDAT: the zlib footer (Adler-32) and the chunk footer (CRC-32)
WriteFooter ==
    /\ ppc = "footer"
    /\ LET z == AdlerSum(zlibSum) IN
        /\ chunkSum' = CrcUpdate(chunkSum, z, 1)
        /\ out' = out \o z \o CrcSum(CrcUpdate(chunkSum, z, 1))
    /\ ppc' = "iend"
    /\ UNCHANGED <<im, i, block, total, content, zlibSum>>
    /\ UNCHANGED notEncoder

\* WritePNG: writeChunk(out, nil, "IEND")
WriteIEND ==
    /\ ppc = "iend"
    /\ out' = out \o writeChunk(<<>>, TagIEND)
    /\ ppc' = "done"
    /\ UNCHANGED <<im, i, block, total, content, chunkSum, zlibSum>>
    /\ UNCHANGED notEncoder

(* ---------------------------------------------------------------------- *)
(* Decoding, as image/png does it for the containers the encoder writes    *)
(* ---------------------------------------------------------------------- *)

\* binary.BigEndian.Uint32 of b[k..k+3]
U32At(b, k) == ((b[k] * 256 + b[k + 1]) * 256 + b[k + 2]) * 256 + b[k + 3]

\* the chunk that starts at b[k]: ok iff it lies within b, its length field
\* fits and its CRC matches; then its tag, its data and the index after it
ChunkAt(b, k) ==
    IF k + 11 > Len(b) \/ b[k] >= 128 THEN [ok |-> FALSE]
    ELSE LET n == U32At(b, k) IN
         IF k + 11 + n > Len(b) THEN [ok |-> FALSE]
         ELSE LET body == SubSeq(b, k + 4, k + 7 + n) IN
              IF SubSeq(b, k + 8 + n, k + 11 + n) /= CrcSum(CrcUpdate(CrcInit, body, 1))
              THEN [ok |-> FALSE]
              ELSE [ok |-> TRUE, tag |-> SubSeq(b, k + 4, k + 7),
                    data |-> SubSeq(b, k + 8, k + 7 + n), next |-> k + 12 + n]

RECURSIVE InflateStored(_, _, _)
\* the stored blocks of the deflate stream z from z[k] on, appended to acc: ok
\* iff every block is a well-formed stored block and a final block is reached
InflateStored(z, k, acc) ==
    IF k + 4 > Len(z) THEN [ok |-> FALSE]
    ELSE LET n == z[k + 1] + 256 * z[k + 2]
             c == z[k + 3] + 256 * z[k + 4]
         IN  IF (z[k] \div 2) % 4 /= 0 \/ n + c /= 65535 \/ k + 4 + n > Len(z)
             THEN [ok |-> FALSE]
             ELSE IF z[k] % 2 = 1
             THEN [ok |-> TRUE, data |-> acc \o SubSeq(z, k + 5, k + 4 + n),
                   next |-> k + 5 + n]
             ELSE InflateStored(z, k + 5 + n, acc \o SubSeq(z, k + 5, k + 4 + n))

\* compress/zlib: the 2-byte header, the deflate stream and the Adler-32
\* trailer, with nothing after it
Inflate(z) ==
    IF Len(z) < 2 \/ z[1] % 16 /= 8 \/ (z[1] * 256 + z[2]) % 31 /= 0
           \/ (z[2] \div 32) % 2 /= 0
    THEN [ok |-> FALSE]
    ELSE LET r == InflateStored(z, 3, <<>>) IN
         IF ~r.ok THEN [ok |-> FALSE]
         ELSE IF SubSeq(z, r.next, Len(z)) /= AdlerSum(AdlerUpdate(AdlerInit, r.data, 1))
         THEN [ok |-> FALSE]
         ELSE [ok |-> TRUE, data |-> r.data]

RECURSIVE Unfilter(_, _, _, _)
\* the pixel bytes of the scanlines y.. of the uncompressed data d, each
\* scanline 1 filter byte (0: none) and 2*w pixel bytes
Unfilter(d, w, h, y) ==
    IF y > h THEN <<>>
    ELSE SubSeq(d, (y - 1) * (1 + 2 * w) + 2, y * (1 + 2 * w)) \o Unfilter(d, w, h, y + 1)

DecodeError == [ok |-> FALSE]

\* png.Decode of the bytes b: the image's width, height and pixel bytes, or an
\* error. Only filter method 0 is decoded: the encoder writes no other
Decode(b) ==
    IF Len(b) < 8 \/ SubSeq(b, 1, 8) /= Signature THEN DecodeError
    ELSE LET hd == ChunkAt(b, 9) IN
    IF ~hd.ok THEN DecodeError
    ELSE IF hd.tag /= TagIHDR \/ Len(hd.data) /= 13 THEN DecodeError
    ELSE LET w == U32At(hd.data, 1)
             h == U32At(hd.data, 5)
             da == ChunkAt(b, hd.next)
         IN
    IF w < 1 \/ h < 1 \/ SubSeq(hd.data, 9, 13) /= <<16, 0, 0, 0, 0>> THEN DecodeError
    ELSE IF ~da.ok THEN DecodeError
    ELSE IF da.tag /= TagIDAT THEN DecodeError
    ELSE LET en == ChunkAt(b, da.next)
             z == Inflate(da.data)
         IN
    IF ~en.ok THEN DecodeError
    ELSE IF en.tag /= TagIEND \/ ~z.ok THEN DecodeError
    ELSE IF Len(z.data) /= h * (1 + 2 * w) THEN DecodeError
    ELSE IF \E y \in 1..h : z.data[(y - 1) * (1 + 2 * w) + 1] /= 0 THEN DecodeError
    ELSE [ok |-> TRUE, W |-> w, H |-> h, Pix |-> Unfilter(z.data, w, h, 1)]

RECURSIVE Pixels(_, _)
\* the pixel bytes of the raster m from scanline y on: 2*W bytes of each scanline
Pixels(m, y) ==
    IF y > m.H THEN <<>>
    ELSE SubSeq(m.Pix, (y - 1) * m.Stride + 1, (y - 1) * m.Stride + 2 * m.W)
             \o Pixels(m, y + 1)

RECURSIVE Scanlines(_, _)
\* the uncompressed stream PNG asks for: per scanline a 0 and its 2*W bytes
Scanlines(m, y) ==
    IF y > m.H THEN <<>>
    ELSE <<0>> \o SubSeq(m.Pix, (y - 1) * m.Stride + 1, (y - 1) * m.Stride + 2 * m.W)
             \o Scanlines(m, y + 1)

(* ---------------------------------------------------------------------- *)
(* writeIDAT and the flateWriter by lengths, on a sink that may fail       *)
(* ---------------------------------------------------------------------- *)

\* rows of a raster: len(im.Pix) / im.Stride is 0..MaxRows, and so is Dy
MaxRows == 2

\* the strides: rows of 1 and 2 samples, rows that with their filter byte fill
\* one stored block exactly, and rows that span two and three blocks
Strides == {2, 4, 65534, 65536, 131072}

\* the last block opened takes k more bytes
AddGot(bs, k) == [bs EXCEPT ![Len(bs)].got = @ + k]

RECURSIVE FlateWriteLen(_, _, _, _, _)
\* flateWriter.Write(p) for len(p) = n with w.block = blk and w.total = tot, on
\* a sink that accepts everything (ok) or fails every write with 0 bytes: the
\* new block and total, the bytes the sink accepted, the blocks opened, the
\* error; overflow when the recursion never ends
FlateWriteLen(blk, tot, n, bs, ok) ==
    LET opens == blk = 0
        nb == IF opens THEN Min(65535, tot) ELSE blk
        nt == IF opens THEN tot - nb ELSE tot
        prevFull == bs = <<>> \/ bs[Len(bs)].got = bs[Len(bs)].len
        bs1 == IF opens
               THEN Append(bs, [len |-> nb, got |-> 0, prevFull |-> prevFull])
               ELSE bs
    IN  IF ~ok
        THEN [block |-> nb, total |-> nt, w |-> 0, blocks |-> bs, err |-> TRUE,
              overflow |-> FALSE]
        ELSE IF n <= nb
        THEN [block |-> nb - n, total |-> nt,
              w |-> (IF opens THEN 5 ELSE 0) + n, blocks |-> AddGot(bs1, n),
              err |-> FALSE, overflow |-> FALSE]
        ELSE IF nb = 0
        THEN [block |-> 0, total |-> 0, w |-> 5, blocks |-> bs1, err |-> FALSE,
              overflow |-> TRUE]
        ELSE LET rest == FlateWriteLen(0, nt, n - nb, AddGot(bs1, nb), ok)
             IN  [rest EXCEPT !.w = @ + (IF opens THEN 5 ELSE 0) + nb]

\* what WritePNG returns to its caller: the function has no result
WritePNGResult == "none"

\* writeIDAT(out, im) is about to run on a sink that works
FStart(pix, stride, dy) ==
    /\ fim = [pix |-> pix, stride |-> stride, dy |-> dy]
    /\ fpc = "idat"
    /\ fi = 0
    /\ fw = [block |-> 0, total |-> 0]
    /\ fblocks = <<>>
    /\ fdeclared = 0
    /\ fpayload = 0
    /\ fsink = "ok"
    /\ ferrs = 0

\* the writer at rest
FRest == FStart(2, 2, 1)

\* an image whose Pix holds rows * stride bytes and whose Bounds().Dy() is dy
FInit ==
    \E stride \in Strides, rows \in 0..MaxRows, dy \in 0..MaxRows :
        FStart(rows * stride, stride, dy)

\* out.Write, chunkContent.Write: k bytes to the sink
SinkWrite(k) ==
    /\ fpayload' = IF fsink = "ok" THEN fpayload + k ELSE fpayload
    /\ ferrs' = IF fsink = "ok" THEN ferrs ELSE ferrs + 1

\* the sink starts to fail: the client has gone away
SinkFail ==
    /\ fsink = "ok"
    /\ fpc \notin {"done", "panic", "overflow"}
    /\ fsink' = "failing"
    /\ UNCHANGED <<fim, fpc, fi, fw, fblocks, fdeclared, fpayload, ferrs>>
    /\ UNCHANGED notFlate

\* writeIDAT up to the loop: the declared length, the tag and the zlib header
LenIDATHeader ==
    /\ fpc = "idat"
    /\ LET contentLen == fim.pix + fim.dy IN
        /\ fw' = [block |-> 0, total |-> contentLen]
        /\ fdeclared' = 6 + deflateLen(contentLen)
    /\ SinkWrite(2)
    /\ fi' = 0
    /\ fpc' = IF 0 < fim.pix THEN "filter" ELSE "close"
    /\ UNCHANGED <<fim, fblocks, fsink>>
    /\ UNCHANGED notFlate

\* zlibContent.Write(p) for len(p) = n; writeIDAT drops the error
LenZlibWrite(n, next) ==
    LET r == FlateWriteLen(fw.block, fw.total, n, fblocks, fsink = "ok") IN
    /\ fw' = [block |-> r.block, total |-> r.total]
    /\ fblocks' = r.blocks
    /\ fpayload' = fpayload + r.w
    /\ ferrs' = IF r.err THEN ferrs + 1 ELSE ferrs
    /\ fpc' = IF r.overflow THEN "overflow" ELSE next

\* writeIDAT's loop: zlibContent.Write([]byte{0})
LenFilter ==
    /\ fpc = "filter"
    /\ LenZlibWrite(1, "row")
    /\ UNCHANGED <<fim, fi, fdeclared, fsink>>
    /\ UNCHANGED notFlate

\* writeIDAT's loop: zlibContent.Write(im.Pix[i : i+im.Stride]) and i += im.Stride
LenRow ==
    /\ fpc = "row"
    /\ LenZlibWrite(fim.stride,
                    IF fi + fim.stride < fim.pix THEN "filter" ELSE "close")
    /\ fi' = fi + fim.stride
    /\ UNCHANGED <<fim, fdeclared, fsink>>
    /\ UNCHANGED notFlate

\* flateWriter.Close: panic("wrote less than anticipated") unless total and
\* block are 0, else the final empty block
LenClose ==
    /\ fpc = "close"
    /\ IF fw.total /= 0 \/ fw.block /= 0
       THEN /\ fpc' = "panic"
            /\ UNCHANGED <<fpayload, ferrs>>
       ELSE /\ fpc' = "footer"
            /\ SinkWrite(5)
    /\ UNCHANGED <<fim, fi, fw, fblocks, fdeclared, fsink>>
    /\ UNCHANGED notFlate

\* writeIDAT: the zlib footer (Adler-32), then the chunk footer (CRC-32), and
\* WritePNG returns
LenFooter ==
    /\ fpc = "footer"
    /\ SinkWrite(4)
    /\ fpc' = "done"
    /\ UNCHANGED <<fim, fi, fw, fblocks, fdeclared, fsink>>
    /\ UNCHANGED notFlate

(* ---------------------------------------------------------------------- *)
(* The framebuffer device and the handler's routing                       *)
(* ---------------------------------------------------------------------- *)

\* the largest visible and virtual resolution of the framebuffer
MaxRes == 2
\* the largest Xoffset and Yoffset
MaxOff == 1
\* parts written on one connection
MaxParts == 3

Max(a, b) == IF a > b THEN a ELSE b

\* image.Rect: the rectangle with the corners in canonical order
Rect(x0, y0, x1, y1) ==
    [MinX |-> Min(x0, x1), MinY |-> Min(y0, y1),
     MaxX |-> Max(x0, x1), MaxY |-> Max(y0, y1)]

Dx(r) == r.MaxX - r.MinX
Dy(r) == r.MaxY - r.MinY

\* image.Rectangle.Empty
Empty(r) == r.MinX >= r.MaxX \/ r.MinY >= r.MaxY

\* image.Rectangle.In
In(r, s) ==
    \/ Empty(r)
    \/ /\ s.MinX <= r.MinX /\ r.MaxX <= s.MaxX
       /\ s.MinY <= r.MinY /\ r.MaxY <= s.MaxY

\* a framebuffer: the fields of VarScreeninfo the code reads, finfo.Line_length
\* for a line of xv + pad samples, and len(d.mmap) = Smem_len
Geo(xres, yres, xv, yv, xoff, yoff, bpp, pad) ==
    [Xres |-> xres, Yres |-> yres, Xres_virtual |-> xv, Yres_virtual |-> yv,
     Xoffset |-> xoff, Yoffset |-> yoff, Bits_per_pixel |-> bpp,
     Line_length |-> 2 * (xv + pad), Smem_len |-> 2 * (xv + pad) * yv]

\* d.mmap while the screen shows the content of the given seed
Mmap(g, seed) == [k \in 1..g.Smem_len |-> PixByte(seed, k)]

\* Device.Image, given whether the ioctl of VarScreeninfo succeeds: the
\* image.Gray16 over d.mmap, or an error
Image(g, ioctl, seed) ==
    LET virtual == Rect(0, 0, g.Xres_virtual, g.Yres_virtual)
        visual == Rect(g.Xoffset, g.Yoffset, g.Xres, g.Yres)
    IN  IF ~ioctl THEN [err |-> "FBIOGET_VSCREENINFO"]
        ELSE IF g.Bits_per_pixel /= 16 THEN [err |-> "bits per pixel unsupported"]
        ELSE IF Dx(virtual) * Dy(virtual) * 2 /= g.Smem_len
        THEN [err |-> "virtual resolution doesn't match framebuffer size"]
        ELSE IF ~In(visual, virtual)
        THEN [err |-> "visual resolution not contained in virtual resolution"]
        ELSE [err |-> "nil", Pix |-> Mmap(g, seed), Stride |-> g.Line_length,
              Rect |-> visual]

\* copy(dst, src) followed by the rest of dst
Copy(dst, src) ==
    [k \in 1..Len(dst) |-> IF k <= Len(src) THEN src[k] ELSE dst[k]]

\* handler.readImage(im) once h.fb.Image() has returned gim without error
ReadInto(m, gim) ==
    LET grown == IF Len(m.Pix) < Len(gim.Pix)
                 THEN m.Pix \o [k \in 1..(Len(gim.Pix) - Len(m.Pix)) |-> 0]
                 ELSE m.Pix
    IN  [Pix |-> Copy(grown, gim.Pix), Stride |-> gim.Stride, Rect |-> gim.Rect]

\* new(image.Gray16)
NewGray16 == [Pix |-> <<>>, Stride |-> 0, Rect |-> Rect(0, 0, 0, 0)]

\* the requests a client sends
Methods == {"GET", "POST"}
Paths == {"/", "/video", "/raw", "/video/", "/favicon.ico"}
NoRequest == [method |-> "none", path |-> ""]

\* a ServeHTTP without the method test
ServeHTTPAnyMethod(method, path, fbnil) ==
    CASE path = "/" -> "serveIndex"
      [] path = "/video" -> "serveVideo"
      [] path = "/raw" -> IF fbnil THEN "501" ELSE "serveRaw"
      [] OTHER -> "404"

\* handler.ServeHTTP: the handler a request is given to, or the status of the
\* error it is answered with
ServeHTTP(method, path, fbnil) ==
    IF method /= "GET" THEN "405"
    ELSE CASE path = "/" -> "serveIndex"
           [] path = "/video" -> "serveVideo"
           [] path = "/raw" -> IF fbnil THEN "501" ELSE "serveRaw"
           [] OTHER -> "404"

(* ---------------------------------------------------------------------- *)
(* The stream handlers: serveRaw and serveVideo                           *)
(* ---------------------------------------------------------------------- *)

\* const version = 1
version == 1

\* &rawHeader{version, 16, 0, vinfo.Xres, vinfo.Yres}
RawHeaderOf(g) ==
    [Version |-> version, BitsPerPixel |-> 16, Width |-> g.Xres, Height |-> g.Yres]

\* binary.Write(part, binary.BigEndian, rhdr): the blank field is written as zeros
EncodeHdr(h) ==
    <<h.Version, h.BitsPerPixel, 0, 0>> \o BE32(h.Width) \o BE32(h.Height)

\* the Content-Type of the parts of /raw, and of the parts of /video
OctetStream == "binary/octet-stream"
ImagePng == "image/png"

\* mpw.CreatePart(hdr): a new part with the given Content-Type and no body yet;
\* wrote names the statement that writes its body
NewPart(ct, wrote) == [ct |-> ct, body |-> <<>>, wrote |-> wrote]

\* the parts after a Write of b to the part created last
WriteBody(parts, b) ==
    [parts EXCEPT ![Len(parts)] = [@ EXCEPT !.body = @ \o b]]

\* a handler that shares one sink with the other handlers
BlockedByAny(c) == \E d \in Streams : stalled[d]

\* a write to w blocks while the client of this connection does not read
Blocked(c) == stalled[c]

\* a write to w fails once one has failed; otherwise it may succeed or fail
WriteOutcomes(c) == IF broken[c] THEN {FALSE} ELSE BOOLEAN

\* a serveRaw that starts over with the header after each frame
AfterFlushRestart == "rhdr"

\* where serveRaw's loop goes on after flusher.Flush(): the top of the loop
AfterFlush == "rread"

\* the handler is in its streaming loop or about to enter it
Streaming(c) == spc[c] \notin {"serve", "done"}

\* a frame read, a part creation, a write or a flush happens: note whether
\* it comes after a failure
Work(c) == afterFail' = [afterFail EXCEPT ![c] = @ \/ failed[c]]

\* the handler of connection c has read a frame into im ("read"), written im
\* to a part ("write"), flushed ("flush"), or failed to read or write ("none")
Log(c, ev) ==
    /\ hold' = [hold EXCEPT ![c] = CASE ev = "read" -> "fresh"
                                     [] ev = "write" -> "emitted"
                                     [] ev = "flush" /\ @ = "emitted" -> "flushed"
                                     [] OTHER -> @]
    /\ disorder' = [disorder EXCEPT ![c] =
                        \/ @
                        \/ (ev = "read" /\ hold[c] = "emitted")
                        \/ (ev = "write" /\ hold[c] /= "fresh")]

\* the handlers of a server in the given mode with framebuffer g showing the
\* contents scr, before the requests rq are served
SStart(md, g, scr, rq) ==
    /\ mode = md
    /\ geo = g
    /\ screens = scr
    /\ req = rq
    /\ spc = [c \in Streams |-> "serve"]
    /\ status = [c \in Streams |-> "none"]
    /\ sim = [c \in Streams |-> NewGray16]
    /\ sdedup = [c \in Streams |-> [h1 |-> <<0, 0>>, h2 |-> <<0, 0>>]]
    /\ wire = [c \in Streams |-> <<>>]
    /\ flushed = [c \in Streams |-> 0]
    /\ broken = [c \in Streams |-> FALSE]
    /\ stalled = [c \in Streams |-> FALSE]
    /\ mark = [c \in Streams |-> -1]
    /\ failed = [c \in Streams |-> FALSE]
    /\ afterFail = [c \in Streams |-> FALSE]
    /\ hold = [c \in Streams |-> "none"]
    /\ disorder = [c \in Streams |-> FALSE]

\* handler.ServeHTTP for the request on connection c
Serve(c) ==
    /\ spc[c] = "serve"
    /\ req[c] /= NoRequest
    /\ LET r == ServeHTTP(req[c].method, req[c].path, mode = "proxy") IN
        /\ spc' = [spc EXCEPT ![c] =
                      CASE r = "serveVideo" -> "video"
                        [] r = "serveRaw" -> "raw"
                        [] OTHER -> "done"]
        /\ status' = [status EXCEPT ![c] =
                      CASE r \in {"serveVideo", "serveRaw"} -> "none"
                        [] r = "serveIndex" -> "200 text/html"
                        [] OTHER -> r]
    /\ UNCHANGED <<mode, geo, screens, req, sim, sdedup, wire, flushed, broken,
                   stalled, mark, failed, afterFail>>
    /\ UNCHANGED notHandler

\* the client of connection c stops reading
Stall(c) ==
    /\ Streaming(c)
    /\ ~stalled[c]
    /\ stalled' = [stalled EXCEPT ![c] = TRUE]
    /\ mark' = [mark EXCEPT ![c] = flushed[CHOOSE d \in Streams : d /= c]]
    /\ UNCHANGED <<mode, geo, screens, req, spc, status, sim, sdedup, wire,
                   flushed, broken, failed, afterFail>>
    /\ UNCHANGED notHandler

\* the handler's frame read and dedup.skip(im.Pix) on connection c, given the
\* image read or its error: the next im and deduper, and whether to skip
ReadAndSkip(c, gim) ==
    LET m == ReadInto(sim[c], gim)
        h == Sum32(m.Pix)
        d == sdedup[c]
    IN  [im |-> m, skip |-> IsDup(h, d.h1, d.h2),
         dedup |-> IF IsDup(h, d.h1, d.h2) THEN d ELSE [h1 |-> d.h2, h2 |-> h]]

\* serveRaw up to w.WriteHeader(http.StatusOK)
RawOpen(c) ==
    /\ spc[c] = "raw"
    /\ \E ioctl \in BOOLEAN :
        IF ioctl
        THEN /\ status' = [status EXCEPT ![c] = "200 multipart/x-mixed-replace"]
             /\ spc' = [spc EXCEPT ![c] = "rhdr"]
        ELSE /\ status' = [status EXCEPT ![c] = "500"]
             /\ spc' = [spc EXCEPT ![c] = "done"]
    /\ UNCHANGED <<mode, geo, screens, req, sim, sdedup, wire, flushed, broken,
                   stalled, mark, failed, afterFail>>
    /\ UNCHANGED notHandler

\* serveRaw: mpw.CreatePart(hdr) and binary.Write(part, binary.BigEndian, rhdr)
RawHeader(c) ==
    /\ spc[c] = "rhdr"
    /\ ~Blocked(c)
    /\ Len(wire[c]) < MaxParts
    /\ \E created \in WriteOutcomes(c), written \in WriteOutcomes(c) :
        /\ wire' = [wire EXCEPT ![c] =
                      IF ~created THEN @
                      ELSE IF ~written THEN Append(@, NewPart(OctetStream, "hdr"))
                      ELSE WriteBody(Append(@, NewPart(OctetStream, "hdr")),
                                     EncodeHdr(RawHeaderOf(geo)))]
        /\ spc' = [spc EXCEPT ![c] = IF created /\ written THEN "rread" ELSE "done"]
        /\ broken' = [broken EXCEPT ![c] = @ \/ ~(created /\ written)]
        /\ failed' = [failed EXCEPT ![c] = @ \/ ~(created /\ written)]
    /\ Work(c)
    /\ UNCHANGED <<mode, geo, screens, req, status, sim, sdedup, flushed,
                   stalled, mark>>
    /\ UNCHANGED notHandler

\* serveRaw's loop: h.readImage(im) and dedup.skip(im.Pix)
RawRead(c) ==
    /\ spc[c] = "rread"
    /\ \E ioctl \in BOOLEAN, seed \in screens :
        LET gim == Image(geo, ioctl, seed) IN
        IF gim.err /= "nil"
        THEN /\ spc' = [spc EXCEPT ![c] = "done"]
             /\ failed' = [failed EXCEPT ![c] = TRUE]
             /\ UNCHANGED <<sim, sdedup>>
             /\ Log(c, "none")
        ELSE LET r == ReadAndSkip(c, gim) IN
             /\ sim' = [sim EXCEPT ![c] = r.im]
             /\ sdedup' = [sdedup EXCEPT ![c] = r.dedup]
             /\ spc' = [spc EXCEPT ![c] = IF r.skip THEN "rread" ELSE "rpart"]
             /\ UNCHANGED failed
             /\ Log(c, "read")
    /\ Work(c)
    /\ UNCHANGED <<mode, geo, screens, req, status, wire, flushed, broken,
                   stalled, mark>>
    /\ UNCHANGED notHandlerLog

\* serveRaw's loop: w, err := mpw.CreatePart(hdr)
RawPart(c) ==
    /\ spc[c] = "rpart"
    /\ ~Blocked(c)
    /\ Len(wire[c]) < MaxParts
    /\ \E created \in WriteOutcomes(c) :
        /\ wire' = [wire EXCEPT ![c] =
                      IF created THEN Append(@, NewPart(OctetStream, "frame")) ELSE @]
        /\ spc' = [spc EXCEPT ![c] = IF created THEN "rwrite" ELSE "done"]
        /\ broken' = [broken EXCEPT ![c] = @ \/ ~created]
        /\ failed' = [failed EXCEPT ![c] = @ \/ ~created]
    /\ Work(c)
    /\ UNCHANGED <<mode, geo, screens, req, status, sim, sdedup, flushed,
                   stalled, mark>>
    /\ UNCHANGED notHandler

\* serveRaw's loop: w.Write(im.Pix)
RawWrite(c) ==
    /\ spc[c] = "rwrite"
    /\ ~Blocked(c)
    /\ \E written \in WriteOutcomes(c) :
        /\ wire' = [wire EXCEPT ![c] = IF written THEN WriteBody(@, sim[c].Pix) ELSE @]
        /\ spc' = [spc EXCEPT ![c] = IF written THEN "rflush" ELSE "done"]
        /\ broken' = [broken EXCEPT ![c] = @ \/ ~written]
        /\ failed' = [failed EXCEPT ![c] = @ \/ ~written]
        /\ Log(c, IF written THEN "write" ELSE "none")
    /\ Work(c)
    /\ UNCHANGED <<mode, geo, screens, req, status, sim, sdedup, flushed,
                   stalled, mark>>
    /\ UNCHANGED notHandlerLog

\* serveRaw's loop: flusher.Flush()
RawFlush(c) ==
    /\ spc[c] = "rflush"
    /\ ~Blocked(c)
    /\ flushed' = [flushed EXCEPT ![c] = @ + 1]
    /\ Log(c, "flush")
    /\ spc' = [spc EXCEPT ![c] = AfterFlush]
    /\ Work(c)
    /\ UNCHANGED <<mode, geo, screens, req, status, sim, sdedup, wire, broken,
                   stalled, mark, failed>>
    /\ UNCHANGED notHandlerLog

\* what proxyconn.readImage hands to serveVideo in proxy mode: a frame of the
\* width and height of the remote header, the remote framebuffer being g
RemoteImage(g, seed) ==
    [err |-> "nil", Pix |-> [k \in 1..(g.Xres * g.Yres * 2) |-> PixByte(seed, k)],
     Stride |-> 2 * g.Xres, Rect |-> Rect(0, 0, g.Xres, g.Yres)]

\* image/png Encoder.Encode rejects an image without pixels (invalid image size)
InvalidSize(m) == Dx(m.Rect) <= 0 \/ Dy(m.Rect) <= 0

\* serveVideo up to w.WriteHeader(http.StatusOK): in proxy mode dialProxy may fail
VideoOpen(c) ==
    /\ spc[c] = "video"
    /\ \E dial \in (IF mode = "proxy" THEN BOOLEAN ELSE {TRUE}) :
        IF dial
        THEN /\ status' = [status EXCEPT ![c] = "200 multipart/x-mixed-replace"]
             /\ spc' = [spc EXCEPT ![c] = "vread"]
        ELSE /\ status' = [status EXCEPT ![c] = "502"]
             /\ spc' = [spc EXCEPT ![c] = "done"]
    /\ UNCHANGED <<mode, geo, screens, req, sim, sdedup, wire, flushed, broken,
                   stalled, mark, failed, afterFail>>
    /\ UNCHANGED notHandler

\* serveVideo's loop: reader.readImage(im) and dedup.skip(im.Pix); the reader is
\* the handler itself in device mode and the proxyconn in proxy mode
VideoRead(c) ==
    /\ spc[c] = "vread"
    /\ \E ok \in BOOLEAN, seed \in screens :
        LET gim == IF mode = "proxy"
                   THEN IF ok THEN RemoteImage(geo, seed) ELSE [err |-> "EOF"]
                   ELSE Image(geo, ok, seed)
        IN
        IF gim.err /= "nil"
        THEN /\ spc' = [spc EXCEPT ![c] = "done"]
             /\ failed' = [failed EXCEPT ![c] = TRUE]
             /\ UNCHANGED <<sim, sdedup>>
             /\ Log(c, "none")
        ELSE LET r == ReadAndSkip(c, gim) IN
             /\ sim' = [sim EXCEPT ![c] = r.im]
             /\ sdedup' = [sdedup EXCEPT ![c] = r.dedup]
             /\ spc' = [spc EXCEPT ![c] = IF r.skip THEN "vsleep" ELSE "vpart"]
             /\ UNCHANGED failed
             /\ Log(c, "read")
    /\ Work(c)
    /\ UNCHANGED <<mode, geo, screens, req, status, wire, flushed, broken,
                   stalled, mark>>
    /\ UNCHANGED notHandlerLog

\* serveVideo's loop: time.Sleep(500 * time.Millisecond); continue
VideoSleep(c) ==
    /\ spc[c] = "vsleep"
    /\ spc' = [spc EXCEPT ![c] = "vread"]
    /\ UNCHANGED <<mode, geo, screens, req, status, sim, sdedup, wire, flushed,
                   broken, stalled, mark, failed, afterFail>>
    /\ UNCHANGED notHandler

\* serveVideo's loop: w, err := mpw.CreatePart(hdr)
VideoPart(c) ==
    /\ spc[c] = "vpart"
    /\ ~Blocked(c)
    /\ Len(wire[c]) < MaxParts
    /\ \E created \in WriteOutcomes(c) :
        /\ wire' = [wire EXCEPT ![c] =
                      IF created THEN Append(@, NewPart(ImagePng, "frame")) ELSE @]
        /\ spc' = [spc EXCEPT ![c] = IF created THEN "venc" ELSE "done"]
        /\ broken' = [broken EXCEPT ![c] = @ \/ ~created]
        /\ failed' = [failed EXCEPT ![c] = @ \/ ~created]
    /\ Work(c)
    /\ UNCHANGED <<mode, geo, screens, req, status, sim, sdedup, flushed,
                   stalled, mark>>
    /\ UNCHANGED notHandler

\* serveVideo's loop: enc.Encode(w, im), whose error is dropped. The body of
\* the part stands for the PNG of these pixels
VideoEncode(c) ==
    /\ spc[c] = "venc"
    /\ ~Blocked(c)
    /\ \E written \in WriteOutcomes(c) :
        LET encoded == written /\ ~InvalidSize(sim[c]) IN
        /\ wire' = [wire EXCEPT ![c] = IF encoded THEN WriteBody(@, sim[c].Pix) ELSE @]
        /\ broken' = [broken EXCEPT ![c] = @ \/ (~written /\ ~InvalidSize(sim[c]))]
        /\ failed' = [failed EXCEPT ![c] = @ \/ ~encoded]
        /\ Log(c, IF encoded THEN "write" ELSE "none")
    /\ spc' = [spc EXCEPT ![c] = "vflush"]
    /\ Work(c)
    /\ UNCHANGED <<mode, geo, screens, req, status, sim, sdedup, flushed,
                   stalled, mark>>
    /\ UNCHANGED notHandlerLog

\* serveVideo's loop: flusher.Flush()
VideoFlush(c) ==
    /\ spc[c] = "vflush"
    /\ ~Blocked(c)
    /\ flushed' = [flushed EXCEPT ![c] = @ + 1]
    /\ Log(c, "flush")
    /\ spc' = [spc EXCEPT ![c] = "vread"]
    /\ Work(c)
    /\ UNCHANGED <<mode, geo, screens, req, status, sim, sdedup, wire, broken,
                   stalled, mark, failed>>
    /\ UNCHANGED notHandlerLog

(* ---------------------------------------------------------------------- *)
(* The proxy's reader: dialProxy, readHdr and proxyconn.readImage         *)
(* ---------------------------------------------------------------------- *)

\* the Content-Type serveRaw sets, and what other responses carry
MultipartCT == "multipart/x-mixed-replace;boundary=endofsection"
NoBoundaryCT == "multipart/x-mixed-replace"
TextCT == "text/plain; charset=utf-8"

\* mime.ParseMediaType of the Content-Type headers above
ParseMediaType(ct) ==
    CASE ct = MultipartCT ->
            [err |-> "nil", mt |-> "multipart/x-mixed-replace", boundary |-> "endofsection"]
      [] ct = NoBoundaryCT ->
            [err |-> "nil", mt |-> "multipart/x-mixed-replace", boundary |-> ""]
      [] ct = TextCT -> [err |-> "nil", mt |-> "text/plain", boundary |-> ""]
      [] OTHER -> [err |-> "mime: no media type", mt |-> "", boundary |-> ""]

\* var hdr rawHeader
ZeroHeader == [Version |-> 0, BitsPerPixel |-> 0, Width |-> 0, Height |-> 0]

\* a binary.Read into a header that declares Height before Width
DecodeHdrSwapped(b) ==
    [Version |-> b[1], BitsPerPixel |-> b[2], Width |-> U32At(b, 9),
     Height |-> U32At(b, 5)]

\* binary.Read(part, binary.BigEndian, &hdr) of the first 12 bytes of b; the
\* blank field is skipped
DecodeHdr(b) ==
    [Version |-> b[1], BitsPerPixel |-> b[2], Width |-> U32At(b, 5),
     Height |-> U32At(b, 9)]

\* the body of the response the proxy reads, as the parts written to it so far
Body == IF peer = "srvfb" THEN wire[1] ELSE fwire

\* the body has ended: the serving handler has returned
BodyEnded == IF peer = "srvfb" THEN spc[1] = "done" ELSE fclosed

\* part k is complete: the boundary after it, or the end of the body, is there
Terminated(k) == Len(Body) > k \/ BodyEnded

\* c.r.NextPart() can return: the next part has begun, or the body has ended
NextPartReady == Len(Body) > rpos \/ BodyEnded

\* io.ReadFull(part, buf) on a complete part with body b: the error
ReadFullErr(b, n) ==
    IF Len(b) >= n THEN "nil"
    ELSE IF Len(b) = 0 THEN "EOF" ELSE "unexpected EOF"

\* a readHdr that does not look at the version
VersionOkAlways(h) == TRUE

\* readHdr: hdr.Version != version
VersionOk(h) == h.Version = version

\* a readHdr that does not look at the depth
DepthOkAlways(h) == TRUE

\* readHdr: hdr.BitsPerPixel != 16
DepthOk(h) == h.BitsPerPixel = 16

\* proxyconn.readHdr(resp): the error it returns, and the header it decoded
readHdr ==
    LET mp == ParseMediaType(resp) IN
    IF mp.err /= "nil" THEN [err |-> mp.err, hdr |-> ZeroHeader, parts |-> 0]
    ELSE IF mp.mt /= "multipart/x-mixed-replace"
    THEN [err |-> "unknown media type", hdr |-> ZeroHeader, parts |-> 0]
    ELSE IF mp.boundary = ""
    THEN [err |-> "no boundary in media type", hdr |-> ZeroHeader, parts |-> 0]
    ELSE IF Len(Body) = 0 THEN [err |-> "EOF", hdr |-> ZeroHeader, parts |-> 0]
    ELSE LET part == Body[1] IN
    IF part.ct /= OctetStream
    THEN [err |-> "unknown Content-Type for part", hdr |-> ZeroHeader, parts |-> 1]
    ELSE IF ReadFullErr(part.body, 12) /= "nil"
    THEN [err |-> ReadFullErr(part.body, 12), hdr |-> ZeroHeader, parts |-> 1]
    ELSE LET hdr == DecodeHdr(part.body) IN
    IF ~VersionOk(hdr) THEN [err |-> "incompatible version", hdr |-> hdr, parts |-> 1]
    ELSE IF ~DepthOk(hdr)
    THEN [err |-> "incompatible bits per pixel", hdr |-> hdr, parts |-> 1]
    ELSE [err |-> "nil", hdr |-> hdr, parts |-> 1]

\* image.NewGray16(image.Rect(0, 0, w, h))
AllocGray16(w, h) ==
    [Pix |-> [k \in 1..(2 * w * h) |-> 0], Stride |-> 2 * w, Rect |-> Rect(0, 0, w, h)]

\* the proxy before it dials p
RStart(p) ==
    /\ peer = p
    /\ fwire = <<>>
    /\ fclosed = FALSE
    /\ resp = ""
    /\ rstate = "unconnected"
    /\ rc = [width |-> 0, height |-> 0]
    /\ rhdr = ZeroHeader
    /\ rim = NewGray16
    /\ rerr = "nil"
    /\ rpos = 0
    /\ bodyClosed = FALSE
    /\ dialed = "pending"
    /\ rlast = <<>>

\* dialProxy: http.Get returns once the response has begun, or fails
Dial ==
    /\ rstate = "unconnected"
    /\ \E ok \in BOOLEAN, ct \in {MultipartCT, NoBoundaryCT, TextCT, ""} :
        IF ok
        THEN /\ IF peer = "srvfb"
                THEN /\ status[1] /= "none"
                     /\ ct = IF status[1] = "200 multipart/x-mixed-replace"
                             THEN MultipartCT ELSE TextCT
                ELSE TRUE
             /\ resp' = ct
             /\ rstate' = "header"
             /\ UNCHANGED <<rerr, dialed>>
        ELSE /\ ct = ""
             /\ rerr' = "dial"
             /\ dialed' = "nil"
             /\ rstate' = "closed"
             /\ UNCHANGED resp
    /\ UNCHANGED <<peer, fwire, fclosed, rc, rhdr, rim, rpos, bodyClosed, rlast>>
    /\ UNCHANGED notProxy

\* dialProxy: c.readHdr(resp), with the deferred part.Close() that reads up to
\* the end of the part; on an error resp.Body.Close() and no connection
DialReadHdr ==
    /\ rstate = "header"
    /\ LET r == readHdr IN
        /\ r.parts = 0 => (ParseMediaType(resp).boundary = "" \/ NextPartReady)
        /\ r.parts = 1 => Terminated(1)
        /\ rerr' = r.err
        /\ rhdr' = r.hdr
        /\ rpos' = r.parts
        /\ rlast' = IF r.parts = 1 THEN Append(rlast, "hdr") ELSE rlast
        /\ IF r.err = "nil"
           THEN /\ rc' = [width |-> r.hdr.Width, height |-> r.hdr.Height]
                /\ dialed' = "conn"
                /\ rstate' = "frames"
                /\ UNCHANGED bodyClosed
           ELSE /\ dialed' = "nil"
                /\ rstate' = "closed"
                /\ bodyClosed' = TRUE
                /\ UNCHANGED rc
    /\ UNCHANGED <<peer, fwire, fclosed, resp, rim>>
    /\ UNCHANGED notProxy

\* proxyconn.readImage(im) up to c.r.NextPart(): im is replaced by a fresh
\* image unless it has the size of a frame
Resized(m) ==
    IF Len(m.Pix) /= rc.width * rc.height * 2
    THEN AllocGray16(rc.width, rc.height) ELSE m

\* io.ReadFull(part, im.Pix) on a complete part with body b: the bytes read
\* are stored into pix from its start
ReadFullInto(pix, b) == Copy(pix, SubSeq(b, 1, Min(Len(b), Len(pix))))

\* proxyconn.readImage(im), with the deferred part.Close(); on an error
\* serveVideo returns and its deferred c.close() closes the body
readImage ==
    /\ rstate = "frames"
    /\ NextPartReady
    /\ IF Len(Body) <= rpos
       THEN /\ rerr' = "EOF"
            /\ rim' = Resized(rim)
            /\ UNCHANGED <<rpos, rlast>>
       ELSE LET part == Body[rpos + 1] IN
            /\ Terminated(rpos + 1)
            /\ rpos' = rpos + 1
            /\ rlast' = Append(rlast, "frame")
            /\ IF part.ct /= OctetStream
               THEN /\ rerr' = "unknown Content-Type for part"
                    /\ rim' = Resized(rim)
               ELSE /\ rerr' = ReadFullErr(part.body, Len(Resized(rim).Pix))
                    /\ rim' = [Resized(rim) EXCEPT
                                  !.Pix = ReadFullInto(@, part.body)]
    /\ rstate' = IF rerr' = "nil" THEN "frames" ELSE "closed"
    /\ bodyClosed' = (rerr' /= "nil")
    /\ UNCHANGED <<peer, fwire, fclosed, resp, rc, rhdr, dialed>>
    /\ UNCHANGED notProxy

\* proxyconn.close(), deferred by serveVideo, when it returns for another reason
ProxyClose ==
    /\ rstate = "frames"
    /\ rstate' = "closed"
    /\ bodyClosed' = TRUE
    /\ UNCHANGED <<peer, fwire, fclosed, resp, rc, rhdr, rim, rerr, rpos,
                   dialed, rlast>>
    /\ UNCHANGED notProxy

\* the headers a peer that is not this program may send
ForeignHeaders ==
    { [Version |-> v, BitsPerPixel |-> b, Width |-> 1, Height |-> h] :
          v \in {1, 2}, b \in {8, 16}, h \in {0, 1} }

\* the bodies of its parts: headers, a header cut short, and frames of 0..3 bytes
ForeignBodies ==
    { EncodeHdr(h) : h \in ForeignHeaders }
        \cup { SubSeq(EncodeHdr(RawHeaderOf(Geo(1, 1, 1, 1, 0, 0, 16, 0))), 1, 5) }
        \cup { SubSeq(<<145, 205, 9>>, 1, n) : n \in 0..3 }

ForeignParts ==
    { [ct |-> OctetStream, body |-> b, wrote |-> "peer"] : b \in ForeignBodies }
        \cup { [ct |-> "text/plain", body |-> <<145, 205>>, wrote |-> "peer"] }

\* a peer that is not this program writes a part
ForeignPart ==
    /\ peer = "foreign"
    /\ ~fclosed
    /\ Len(fwire) < MaxParts
    /\ \E part \in ForeignParts : fwire' = Append(fwire, part)
    /\ UNCHANGED <<peer, fclosed, resp, rstate, rc, rhdr, rim, rerr, rpos,
                   bodyClosed, dialed, rlast>>
    /\ UNCHANGED notProxy

\* the peer, or the network, ends the body
ForeignEnd ==
    /\ peer = "foreign"
    /\ ~fclosed
    /\ fclosed' = TRUE
    /\ UNCHANGED <<peer, fwire, resp, rstate, rc, rhdr, rim, rerr, rpos,
                   bodyClosed, dialed, rlast>>
    /\ UNCHANGED notProxy

(* ---------------------------------------------------------------------- *)
(* The shared capture buffer: context.read and context.forEach            *)
(* ---------------------------------------------------------------------- *)

\* captures context.read makes
MaxCaptures == 3

\* a Wait that returns without a Broadcast
NotifiedAlways(k) == TRUE

\* sync.Cond.Wait returns once a Broadcast has taken k off the notify list
Notified(k) == k \notin bwait

\* the context do makes: no capture yet, no consumer; pcs is "idle" where
\* connections may come and "off" where forEach is not served
BStart(pcs) ==
    /\ bn = 0
    /\ bb = 0
    /\ bcaps = 0
    /\ bwriter = FALSE
    /\ breaders = {}
    /\ bwait = {}
    /\ bpc = [k \in Streams |-> pcs]
    /\ blocal = [k \in Streams |-> 0]
    /\ bemit = [k \in Streams |-> <<>>]
    /\ tpc = IF pcs = "off" THEN "off" ELSE "tick"

BRest == BStart("off")

\* context.read: a tick while there are consumers, and the copy of the
\* framebuffer into buf (without consumers the loop continues)
ReadTick ==
    /\ tpc = "tick"
    /\ bn > 0
    /\ bcaps < MaxCaptures
    /\ bcaps' = bcaps + 1
    /\ tpc' = "lock"
    /\ UNCHANGED <<bn, bb, bwriter, breaders, bwait, bpc, blocal, bemit>>
    /\ UNCHANGED notBroadcast

\* context.read: ctx.mu.Lock()
ReadLock ==
    /\ tpc = "lock"
    /\ ~bwriter /\ breaders = {}
    /\ bwriter' = TRUE
    /\ tpc' = "publish"
    /\ UNCHANGED <<bn, bb, bcaps, breaders, bwait, bpc, blocal, bemit>>
    /\ UNCHANGED notBroadcast

\* context.read: ctx.b = buf.Bytes(); ctx.c.Broadcast(); ctx.mu.Unlock()
ReadPublish ==
    /\ tpc = "publish"
    /\ bb' = bcaps
    /\ bwait' = {}
    /\ bwriter' = FALSE
    /\ tpc' = "tick"
    /\ UNCHANGED <<bn, bcaps, breaders, bpc, blocal, bemit>>
    /\ UNCHANGED notBroadcast

\* forEach starts for a new connection: atomic.AddInt32(&ctx.n, 1)
ForEachStart(k) ==
    /\ bpc[k] = "idle"
    /\ bn' = bn + 1
    /\ bpc' = [bpc EXCEPT ![k] = "rlock"]
    /\ UNCHANGED <<bb, bcaps, bwriter, breaders, bwait, blocal, bemit, tpc>>
    /\ UNCHANGED notBroadcast

\* forEach's loop: ctx.mu.RLock()
ForEachRLock(k) ==
    /\ bpc[k] = "rlock"
    /\ ~bwriter
    /\ breaders' = breaders \cup {k}
    /\ bpc' = [bpc EXCEPT ![k] = "wait"]
    /\ UNCHANGED <<bn, bb, bcaps, bwriter, bwait, blocal, bemit, tpc>>
    /\ UNCHANGED notBroadcast

\* forEach's loop: ctx.c.Wait() puts k on the notify list and unlocks c.L
ForEachWait(k) ==
    /\ bpc[k] = "wait"
    /\ bwait' = bwait \cup {k}
    /\ breaders' = breaders \ {k}
    /\ bpc' = [bpc EXCEPT ![k] = "asleep"]
    /\ UNCHANGED <<bn, bb, bcaps, bwriter, blocal, bemit, tpc>>
    /\ UNCHANGED notBroadcast

\* forEach's loop: ctx.c.Wait() is notified and locks c.L again
ForEachWake(k) ==
    /\ bpc[k] = "asleep"
    /\ Notified(k)
    /\ ~bwriter
    /\ bwait' = bwait \ {k}
    /\ breaders' = breaders \cup {k}
    /\ bpc' = [bpc EXCEPT ![k] = "read"]
    /\ UNCHANGED <<bn, bb, bcaps, bwriter, blocal, bemit, tpc>>
    /\ UNCHANGED notBroadcast

\* forEach's loop: b := ctx.b; ctx.mu.RUnlock()
ForEachRead(k) ==
    /\ bpc[k] = "read"
    /\ blocal' = [blocal EXCEPT ![k] = bb]
    /\ breaders' = breaders \ {k}
    /\ bpc' = [bpc EXCEPT ![k] = "emit"]
    /\ UNCHANGED <<bn, bb, bcaps, bwriter, bwait, bemit, tpc>>
    /\ UNCHANGED notBroadcast

\* forEach's loop: f(b) writes b to the client as a part and flushes, or fails,
\* and then forEach returns with atomic.AddInt32(&ctx.n, -1)
ForEachEmit(k) ==
    /\ bpc[k] = "emit"
    /\ Len(bemit[k]) <= MaxCaptures
    /\ \E ok \in BOOLEAN :
        IF ok
        THEN /\ bemit' = [bemit EXCEPT ![k] = Append(@, blocal[k])]
             /\ bpc' = [bpc EXCEPT ![k] = "rlock"]
             /\ UNCHANGED bn
        ELSE /\ bpc' = [bpc EXCEPT ![k] = "done"]
             /\ bn' = bn - 1
             /\ UNCHANGED bemit
    /\ UNCHANGED <<bb, bcaps, bwriter, breaders, bwait, blocal, tpc>>
    /\ UNCHANGED notBroadcast

(* ---------------------------------------------------------------------- *)
(* Specifications                                                         *)
(* ---------------------------------------------------------------------- *)

\* the raster of the encoder at rest
RestRaster == Raster(1, 1, 0, 0)

Next ==
    \/ Tick
    \/ Arrive
    \/ AcceptLock
    \/ AcceptCheck
    \/ AcceptPlain
    \/ UnderlyingOk
    \/ UnderlyingTimeout
    \/ UnderlyingErr
    \/ AcceptInc
    \/ AcceptClear
    \/ AcceptReturnConn
    \/ AcceptReturnErr
    \/ \E c \in Conns : Close(c)
    \/ \E c \in Conns : CloseSetDeadline(c)

\* the framebuffer of the handlers at rest: one sample, filling its memory
RestGeo == Geo(1, 1, 1, 1, 0, 0, 16, 0)

\* handlers without requests and a proxy that never dials
SRest ==
    /\ SStart("device", RestGeo, {1}, [c \in Streams |-> NoRequest])
    /\ RStart("none")

\* the listener serving, with a fresh deduper and the encoder at rest
Init == LInit /\ DInit /\ PStart(RestRaster) /\ SRest /\ FRest /\ BRest

Spec == Init /\ [][Next]_vars

\* the scheduler runs every goroutine that can take a step, the clock ticks,
\* and a pending accept returns once a connection waits or the deadline passed;
\* clients need not connect and handlers need not close
FairSpec ==
    /\ Spec
    /\ WF_vars(Tick)
    /\ WF_vars(AcceptLock)
    /\ WF_vars(AcceptCheck)
    /\ WF_vars(AcceptPlain)
    /\ WF_vars(UnderlyingOk)
    /\ WF_vars(UnderlyingTimeout)
    /\ WF_vars(AcceptInc)
    /\ WF_vars(AcceptClear)
    /\ WF_vars(AcceptReturnConn)
    /\ WF_vars(AcceptReturnErr)
    /\ \A c \in Conns : WF_vars(CloseSetDeadline(c))

\* one deduper fed frames, the listener not yet serving and the encoder at rest
DedupNext == \E b \in Frames : Skip(b)

DedupInit == LStart(TRUE, 0) /\ DInit /\ PStart(RestRaster) /\ SRest /\ FRest /\ BRest

DedupSpec == DedupInit /\ [][DedupNext]_vars

PngNext ==
    \/ WriteSignature
    \/ WriteIHDR
    \/ WriteIDATHeader
    \/ WriteFilter
    \/ WriteRow
    \/ FlateClose
    \/ WriteFooter
    \/ WriteIEND

\* WritePNG on one raster, the listener not yet serving and the deduper fresh
PngInit == LStart(TRUE, 0) /\ DInit /\ PInit /\ SRest /\ FRest /\ BRest

PngSpec == PngInit /\ [][PngNext]_vars

\* everything but the handlers and the proxy, at rest
OthersRest == LStart(TRUE, 0) /\ DInit /\ PStart(RestRaster) /\ FRest /\ BRest

\* the framebuffers of the raw connection: every visible and virtual
\* resolution, offset, depth and line padding within the bounds
Geos ==
    { Geo(xres, yres, xv, yv, xoff, yoff, bpp, pad) :
          xres \in 1..MaxRes, yres \in 1..MaxRes,
          xv \in 1..MaxRes, yv \in 1..MaxRes,
          xoff \in 0..MaxOff, yoff \in 0..MaxOff, bpp \in {8, 16}, pad \in {0, 1} }

RawNext ==
    \/ Serve(1)
    \/ RawOpen(1)
    \/ RawHeader(1)
    \/ RawRead(1)
    \/ RawPart(1)
    \/ RawWrite(1)
    \/ RawFlush(1)
    \/ Dial
    \/ DialReadHdr
    \/ readImage
    \/ ProxyClose
    \/ ForeignPart
    \/ ForeignEnd

\* one proxy reading /raw, from this program serving a framebuffer on
\* connection 1 or from a foreign peer
RawInit ==
    /\ OthersRest
    /\ \/ /\ \E g \in Geos :
                SStart("device", g, {1, 2},
                       [c \in Streams |-> IF c = 1
                                          THEN [method |-> "GET", path |-> "/raw"]
                                          ELSE NoRequest])
          /\ RStart("srvfb")
       \/ /\ SStart("device", RestGeo, {1}, [c \in Streams |-> NoRequest])
          /\ RStart("foreign")

RawSpec == RawInit /\ [][RawNext]_vars

\* the widths and heights of the headers of HdrSpec
HdrDims == {0, 1, 1404, 1872, 65536, 2147483647}

HdrNext ==
    \/ Serve(1)
    \/ RawOpen(1)
    \/ RawHeader(1)
    \/ RawRead(1)
    \/ Dial
    \/ DialReadHdr

\* the header of a /raw connection for large resolutions; the framebuffer's
\* memory does not fit them, so the handler returns when it reads a frame
HdrInit ==
    /\ OthersRest
    /\ \E w \in HdrDims, h \in HdrDims :
            SStart("device", Geo(w, h, 1, 1, 0, 0, 16, 1), {1},
                   [c \in Streams |-> IF c = 1
                                      THEN [method |-> "GET", path |-> "/raw"]
                                      ELSE NoRequest])
    /\ RStart("srvfb")

HdrSpec == HdrInit /\ [][HdrNext]_vars

FlateNext ==
    \/ SinkFail
    \/ LenIDATHeader
    \/ LenFilter
    \/ LenRow
    \/ LenClose
    \/ LenFooter

\* writeIDAT on the lengths of one image, everything else at rest
FlateInit ==
    LStart(TRUE, 0) /\ DInit /\ PStart(RestRaster) /\ SRest /\ FInit /\ BRest

FlateSpec == FlateInit /\ [][FlateNext]_vars

OrderNext ==
    \/ Serve(1)
    \/ RawOpen(1)
    \/ RawHeader(1)
    \/ RawRead(1)
    \/ RawPart(1)
    \/ RawWrite(1)
    \/ RawFlush(1)
    \/ VideoOpen(1)
    \/ VideoRead(1)
    \/ VideoSleep(1)
    \/ VideoPart(1)
    \/ VideoEncode(1)
    \/ VideoFlush(1)
    \/ ReadTick
    \/ ReadLock
    \/ ReadPublish
    \/ \E k \in Streams : ForEachStart(k)
    \/ \E k \in Streams : ForEachRLock(k)
    \/ \E k \in Streams : ForEachWait(k)
    \/ \E k \in Streams : ForEachWake(k)
    \/ \E k \in Streams : ForEachRead(k)
    \/ \E k \in Streams : ForEachEmit(k)

\* one connection streaming /raw or /video from a screen that changes, in
\* device or in proxy mode; or, in the program that has forEach, the capture
\* loop and the connections that consume its buffer
OrderInit ==
    /\ LStart(TRUE, 0) /\ DInit /\ PStart(RestRaster) /\ FRest
    /\ RStart("none")
    /\ \/ /\ \E md \in {"device", "proxy"}, path \in {"/raw", "/video"} :
                SStart(md, RestGeo, {1, 2},
                       [c \in Streams |-> IF c = 1
                                          THEN [method |-> "GET", path |-> path]
                                          ELSE NoRequest])
          /\ BRest
       \/ /\ SStart("device", RestGeo, {1}, [c \in Streams |-> NoRequest])
          /\ BStart("idle")

OrderSpec == OrderInit /\ [][OrderNext]_vars

\* the steps of the handler goroutine of connection c
HandlerStep(c) ==
    \/ Serve(c)
    \/ RawOpen(c)
    \/ RawHeader(c)
    \/ RawRead(c)
    \/ RawPart(c)
    \/ RawWrite(c)
    \/ RawFlush(c)
    \/ VideoOpen(c)
    \/ VideoRead(c)
    \/ VideoSleep(c)
    \/ VideoPart(c)
    \/ VideoEncode(c)
    \/ VideoFlush(c)

StreamNext ==
    \/ \E c \in Streams : Serve(c)
    \/ \E c \in Streams : Stall(c)
    \/ \E c \in Streams : RawOpen(c)
    \/ \E c \in Streams : RawHeader(c)
    \/ \E c \in Streams : RawRead(c)
    \/ \E c \in Streams : RawPart(c)
    \/ \E c \in Streams : RawWrite(c)
    \/ \E c \in Streams : RawFlush(c)
    \/ \E c \in Streams : VideoOpen(c)
    \/ \E c \in Streams : VideoRead(c)
    \/ \E c \in Streams : VideoSleep(c)
    \/ \E c \in Streams : VideoPart(c)
    \/ \E c \in Streams : VideoEncode(c)
    \/ \E c \in Streams : VideoFlush(c)

\* the framebuffers of StreamSpec: one sample, visible or, with Xoffset = Xres,
\* with an empty visible rectangle
StreamGeos == {RestGeo, Geo(1, 1, 1, 1, 1, 0, 16, 0)}

\* two connections with one request each, served at the same time in device
\* or in proxy mode, while the screen does not change
StreamInit ==
    /\ OthersRest
    /\ \E md \in {"device", "proxy"}, g \in StreamGeos,
          rq \in [Streams -> [method : Methods, path : Paths]] :
            SStart(md, g, {1}, rq)
    /\ RStart("none")

StreamSpec == StreamInit /\ [][StreamNext]_vars

\* the scheduler runs every handler goroutine that can take a step; a client
\* may stop reading at any time
FairStreamSpec == StreamSpec /\ \A c \in Streams : WF_vars(HandlerStep(c))

(* ---------------------------------------------------------------------- *)
(* Properties of the idle-aware listener                                  *)
(* ---------------------------------------------------------------------- *)

\* the connections Accept has returned and on which Close was not yet called
Unclosed == {c \in Conns : cstate[c] = "open" /\ closeCalls[c] = 0}

\* C1: Accept returns errIdle only while no connection is active: whenever
\* the last Accept returned errIdle, the active count is zero
IdleOnlyWhenNoneActive == result = errIdle => active = 0

\* C2: while a connection that Accept returned is still unclosed, no deadline
\* is in force on the underlying listener
NoDeadlineWhileActive == Unclosed /= {} => deadline = NoDeadline

\* C3: on the idle listener the function guarded by conn.o runs at most once
\* per connection, the active count never wraps around, and outside the
\* bookkeeping of a successful Accept it equals the number of connections
\* returned by Accept on which Close was not yet called
CloseOnce ==
    wrapped =>
        /\ \A c \in Conns : hookRuns[c] <= 1
        /\ active <= MaxConns
        /\ pc \notin {"clear", "ret"} => active = Cardinality(Unclosed)

\* C3 witness: Close was called twice on a connection of the idle listener
ClosedTwice == wrapped /\ \E c \in Conns : closeCalls[c] = 2 /\ hookRuns[c] = 1

\* every connection accepted so far has been closed, none waits or is being
\* handed out, and the underlying accept has not failed for another reason
Quiet ==
    /\ backlog = 0
    /\ pc \notin {"inc", "clear", "ret"}
    /\ \A c \in Conns : cstate[c] = "open" => closeCalls[c] >= 1
    /\ uerr \notin OtherErrs

\* C4, as stated: with timeout > 0, if from some point on every accepted
\* connection is closed and no connection arrives, Accept eventually returns
\* errIdle
IdleEventually == (timeout > 0 /\ <>[]Quiet) => <>(result = errIdle)

\* C4, amended: the same for a TCP listener, the only kind wrapListener wraps
IdleEventuallyTCP == (timeout > 0 /\ isTCP /\ <>[]Quiet) => <>(result = errIdle)

\* C4 witness: on the idle listener a connection was accepted and closed, and
\* Accept then returned errIdle
IdleAfterClose ==
    /\ wrapped
    /\ result = errIdle
    /\ \E c \in Conns : hookRuns[c] = 1
    /\ active = 0

\* C5: the underlying accept times out no sooner than timeout ticks after the
\* count was last decremented to zero
IdleNotBeforeTimeout ==
    (pc = "fail" /\ uerr = ErrTimeout) => (sinceZero = -1 \/ sinceZero >= timeout)

\* C6: with timeout = 0 the listener is not wrapped: no deadline is ever set,
\* Accept never returns errIdle, the mutex is never taken and no connection
\* is counted or runs the close hook
ZeroTimeoutPassThrough ==
    timeout = 0 =>
        /\ ~wrapped
        /\ deadline = NoDeadline
        /\ result /= errIdle
        /\ ~acceptMu
        /\ active = 0 /\ incs = 0
        /\ \A c \in Conns : hookRuns[c] = 0 /\ ~onceDone[c]

\* C6 witness: with timeout = 0 on a TCP listener a connection was accepted
\* and closed and time has passed
ZeroTimeoutServed ==
    /\ timeout = 0 /\ isTCP
    /\ \E c \in Conns : cstate[c] = "open" /\ closeCalls[c] >= 1
    /\ pc = "accepting"

\* C7: when Accept of the idle listener has returned an error, it is errIdle
\* iff the underlying accept timed out and otherwise the underlying error
\* itself; and the count was incremented exactly once per connection the
\* underlying accept returned, so a failed Accept never changes it
ErrorsMapped ==
    wrapped =>
        /\ (pc \in {"idle", "stopped"} /\ uerr /= "none") =>
               /\ result = errIdle <=> uerr = ErrTimeout
               /\ uerr \in OtherErrs => result = uerr
        /\ incs + (IF pc = "inc" THEN 1 ELSE 0) = arrived - backlog

\* C7 witness: with one connection active, Accept failed with another error,
\* returned it and left the count at one
OtherErrorReturned ==
    /\ wrapped
    /\ pc = "stopped" /\ result = ErrOpaque
    /\ active = 1 /\ incs = 1

\* C20: while an Accept call of the idle listener is blocked in the underlying
\* listener's accept, acceptMu is free
MutexFreeWhileAccepting == (wrapped /\ pc = "accepting") => ~acceptMu

\* C21: the pair (increment, clear the deadline) of Accept and the pair
\* (decrement to zero, set the deadline) of conn.Close never overlap: Accept is
\* never between its two steps while a Close is between its own two
BookkeepingExclusive ==
    ~(wrapped /\ pc = "clear" /\ \E c \in Conns : reinst[c] > 0)

(* ---------------------------------------------------------------------- *)
(* Properties of the deduper                                              *)
(* ---------------------------------------------------------------------- *)

\* C8: a frame is skipped iff at least two frames precede it and its hash
\* equals the hashes of both; so the first two frames are never skipped
SkipIffTwoEqual ==
    \A k \in 1..Len(fed) :
        skips[k] <=> (k >= 3 /\ fed[k] = fed[k - 1] /\ fed[k] = fed[k - 2])

(* ---------------------------------------------------------------------- *)
(* Properties of the PNG encoder                                          *)
(* ---------------------------------------------------------------------- *)

\* C9: once WritePNG has returned for a raster of at least 1x1, the bytes
\* written decode to the raster's width, height and pixel bytes, and the
\* uncompressed stream is one 0 and 2*W pixel bytes per scanline
RoundTrip ==
    (ppc = "done" /\ im.H >= 1) =>
        /\ Decode(out) = [ok |-> TRUE, W |-> im.W, H |-> im.H, Pix |-> Pixels(im, 1)]
        /\ content = Scanlines(im, 1)

\* n/d rounded up
Ceil(n, d) == (n + d - 1) \div d

\* the length C10 states for n content bytes: n + (1 + ceil(n/65535)) * 5
StatedDeflateLen(n) == n + (1 + Ceil(n, 65535)) * 5

\* C10: the length declared for the IDAT chunk (the 4 bytes after the
\* signature and the IHDR chunk) is 6 + n + (1 + ceil(n/65535)) * 5 for
\* n = len(pixels) + H
DeclaredLength ==
    ppc \notin {"sig", "ihdr", "idat"} =>
        U32At(out, 34) = 6 + StatedDeflateLen(Len(im.Pix) + im.H)

\* the image is a Raster: len(pixels) = stride * height
WellFormed == fim.pix = fim.stride * fim.dy

\* the sink has accepted every write so far
SinkWorked == fsink = "ok" /\ ferrs = 0

\* the content bytes of the image: its pixels and one filter byte per row
ContentLen == fim.pix + fim.dy

\* C23: for a Raster written to a working sink, every stored block opened
\* holds at most 65535 bytes and was opened when the block before it was full;
\* and when writeIDAT is done, the declared length is the number of bytes
\* written after the type tag, which is 2, plus 5 and its content for each of
\* the ceil(n/65535) blocks, all but the last of 65535 bytes, plus 5 for the
\* final empty block, plus 4 for the Adler-32
StoredBlocksExact ==
    (WellFormed /\ SinkWorked) =>
        /\ \A k \in 1..Len(fblocks) :
                fblocks[k].len <= 65535 /\ fblocks[k].prevFull
        /\ fpc = "done" =>
                /\ fdeclared = fpayload
                /\ fpayload = 2 + ContentLen + 5 * Ceil(ContentLen, 65535) + 5 + 4
                /\ Len(fblocks) = Ceil(ContentLen, 65535)
                /\ \A k \in 1..Len(fblocks) :
                        /\ fblocks[k].got = fblocks[k].len
                        /\ k < Len(fblocks) => fblocks[k].len = 65535

\* C24: every flateWriter.Write returns; and when the content bytes written
\* differ from the precomputed total, being fewer or more, writeIDAT does not
\* get past flateWriter.Close, which panics
FailFastOnMismatch ==
    /\ fpc /= "overflow"
    /\ ~WellFormed => fpc \notin {"footer", "done"}

\* C25: when the sink has failed a write while a Raster was encoded, the
\* encoder does not panic, and once WritePNG has returned it has returned an
\* error to its caller
SinkFailureSurfaced ==
    (WellFormed /\ ferrs > 0) =>
        /\ fpc /= "panic"
        /\ fpc = "done" => WritePNGResult /= "none"

(* ---------------------------------------------------------------------- *)
(* Properties of the raw frame protocol                                   *)
(* ---------------------------------------------------------------------- *)

\* readHdr has read the 12 bytes of a header from the first part
HeaderDecoded ==
    /\ rpos >= 1 /\ rstate \in {"frames", "closed"}
    /\ Body[1].ct = OctetStream /\ Len(Body[1].body) >= 12

\* C11: when readHdr has read the header part that serveRaw wrote, a part of
\* 12 bytes, dialProxy returns a connection, and the header decoded has the
\* version 1, 16 bits per pixel and the width and height serveRaw put into it,
\* which the connection records
HeaderRoundTrip ==
    (peer = "srvfb" /\ HeaderDecoded) =>
        /\ Len(wire[1][1].body) = 12
        /\ dialed = "conn"
        /\ rhdr = RawHeaderOf(geo)
        /\ rhdr = [Version |-> 1, BitsPerPixel |-> 16, Width |-> geo.Xres,
                   Height |-> geo.Yres]
        /\ rc = [width |-> geo.Xres, height |-> geo.Yres]

\* C11 witness: the header of a 1404 x 1872 framebuffer was written and read
HeaderRead1404x1872 ==
    /\ peer = "srvfb" /\ HeaderDecoded
    /\ geo.Xres = 1404 /\ geo.Yres = 1872
    /\ rc = [width |-> 1404, height |-> 1872]

\* dialProxy has rejected the header with the given error: it returned no
\* connection, closed the body and recorded no width or height, and no frame
\* was or can be read
RejectedWith(e) ==
    /\ rerr = e
    /\ dialed = "nil"
    /\ bodyClosed
    /\ rc = [width |-> 0, height |-> 0]
    /\ rstate = "closed"
    /\ rlast = <<"hdr">>

\* C12, as stated: a header whose version is not 1 is rejected with the
\* version error, and a header whose bitsPerPixel is not 16 is rejected with
\* the depth error
HeaderValidation ==
    HeaderDecoded =>
        /\ rhdr.Version /= 1 => RejectedWith("incompatible version")
        /\ rhdr.BitsPerPixel /= 16 => RejectedWith("incompatible bits per pixel")

\* C12, amended: the depth error is what a header of version 1 with another
\* depth gets; the version is tested first
HeaderValidationInOrder ==
    HeaderDecoded =>
        /\ rhdr.Version /= 1 => RejectedWith("incompatible version")
        /\ (rhdr.Version = 1 /\ rhdr.BitsPerPixel /= 16) =>
               RejectedWith("incompatible bits per pixel")

\* C12 witness: a header of version 1 and 8 bits per pixel was rejected
DepthRejected ==
    /\ HeaderDecoded
    /\ rhdr.Version = 1 /\ rhdr.BitsPerPixel = 8
    /\ RejectedWith("incompatible bits per pixel")

\* the errors of a plain I/O failure
PlainIOErrors == {"EOF", "unexpected EOF"}

\* the last readImage read a frame part that ended before width*height*2 bytes
ShortFrameRead ==
    /\ rpos >= 2 /\ rlast[rpos] = "frame"
    /\ rstate = "closed" /\ dialed = "conn"
    /\ Body[rpos].ct = OctetStream
    /\ Len(Body[rpos].body) < rc.width * rc.height * 2

\* C13: after readImage has read a short frame part, its error is a protocol
\* error, not a plain I/O error, and the caller's raster does not begin with
\* the bytes of the short frame
ShortFrameRejected ==
    ShortFrameRead =>
        /\ rerr \notin PlainIOErrors \cup {"nil"}
        /\ Len(Body[rpos].body) >= 1 =>
               SubSeq(rim.Pix, 1, Len(Body[rpos].body)) /= Body[rpos].body

\* the frame part k of connection 1 has been written in full
FrameWritten(k) ==
    /\ k <= Len(wire[1]) /\ wire[1][k].wrote = "frame"
    /\ k < Len(wire[1]) \/ spc[1] \in {"rflush", "rread", "rpart"}

\* C14: every frame part written on the /raw connection carries width*height*2
\* bytes, for the width and height of the header written on that connection
FrameLengthMatchesHeader ==
    \A k \in 2..Len(wire[1]) :
        FrameWritten(k) =>
            Len(wire[1][k].body) =
                DecodeHdr(wire[1][1].body).Width * DecodeHdr(wire[1][1].body).Height * 2

\* C15: on the /raw connection the first part written, and no other, is the
\* header; and the first part the reader consumed, and no other, was read as
\* the header, the reader consuming the parts in order
HeaderFirst ==
    /\ \A k \in 1..Len(wire[1]) : (wire[1][k].wrote = "hdr") <=> (k = 1)
    /\ rpos = Len(rlast)
    /\ \A k \in 1..Len(rlast) : (rlast[k] = "hdr") <=> (k = 1)

\* C15 witness: a header and two frames were written, and the reader has read
\* the header and a frame
HeaderThenFrames ==
    /\ peer = "srvfb"
    /\ Len(wire[1]) = 3 /\ wire[1][3].wrote = "frame"
    /\ rlast = <<"hdr", "frame">>

\* the transitions of the reader's connection that the state machine allows
ReaderTransitions ==
    { <<"unconnected", "header">>, <<"header", "frames">>,
      <<"unconnected", "closed">>, <<"header", "closed">>, <<"frames", "closed">> }

\* C22: the reader is in "frames" only after readHdr read a header of version 1
\* and 16 bits per pixel without error, and a part is read as a frame only
\* there; an error of the dial, of readHdr or of readImage leaves the connection
\* closed; the connection moves only along unconnected -> header -> frames ->
\* closed or directly to closed, and once closed nothing more is read from it
ReaderStateMachine ==
    /\ [](/\ rstate = "frames" =>
                /\ rerr = "nil" /\ dialed = "conn"
                /\ rhdr.Version = version /\ rhdr.BitsPerPixel = 16
                /\ Len(rlast) >= 1 /\ rlast[1] = "hdr"
          /\ rerr /= "nil" => rstate = "closed"
          /\ (rstate = "closed" /\ dialed /= "nil") => bodyClosed)
    /\ [][/\ rstate' /= rstate => <<rstate, rstate'>> \in ReaderTransitions
          /\ (Len(rlast') > Len(rlast) /\ rlast'[Len(rlast')] = "frame")
                 => rstate = "frames"
          /\ rim' /= rim => rstate = "frames"
          /\ rstate = "closed" => UNCHANGED <<rstate, rim, rpos, rlast, rerr>>]_vars

\* C22 witness: after the header and a frame were read, a part of another
\* content type made readImage fail and the connection is closed
ClosedByForeignPart ==
    /\ rstate = "closed" /\ bodyClosed
    /\ rerr = "unknown Content-Type for part"
    /\ rlast = <<"hdr", "frame", "frame">>
    /\ Len(rim.Pix) > 0

(* ---------------------------------------------------------------------- *)
(* Properties of the stream handlers                                      *)
(* ---------------------------------------------------------------------- *)

\* C16: after the first failure of a frame read, a part creation or a frame
\* write or encode on a connection, its handler reads no further frame and
\* creates, writes and flushes no further part
NoWorkAfterFailure == \A c \in Streams : ~afterFail[c]

\* the frames a handler sends while the screen does not change: the deduper
\* lets the first two through
Delivered(c) == flushed[c] >= 2

\* C17: a connection whose own client never stops reading gets its frames
\* delivered, or its handler returns, whatever the clients of the other
\* connections do, one that stops reading for good included
BackpressureIsolated ==
    \A d \in Streams : ([]~stalled[d]) => <>(spc[d] = "done" \/ Delivered(d))

\* C17 witness: a handler is blocked in a write to a client that stopped
\* reading before the other connection had a frame, and the other connection
\* has its frames
OtherDeliveredWhileStalled ==
    \E c \in Streams, d \in Streams :
        /\ c /= d
        /\ stalled[c] /\ mark[c] = 0
        /\ spc[c] \in {"rpart", "rwrite", "rflush", "vpart", "venc", "vflush"}
        /\ ~stalled[d] /\ Delivered(d)

\* the parts written on connection c all have the given Content-Type
PartsAre(c, ct) == \A k \in 1..Len(wire[c]) : wire[c][k].ct = ct

\* C18, as stated: the response begun for a request is 405 for a method other
\* than GET, the multipart stream of PNG parts for GET /video, the multipart
\* stream of raw parts for GET /raw in device mode and 501 in proxy mode, and
\* 404 for GET of any other path
Routing ==
    \A c \in Streams :
        status[c] /= "none" =>
            status[c] =
                IF req[c].method /= "GET" THEN "405"
                ELSE IF req[c].path = "/video" THEN "200 multipart/x-mixed-replace"
                ELSE IF req[c].path = "/raw"
                THEN IF mode = "proxy" THEN "501" ELSE "200 multipart/x-mixed-replace"
                ELSE "404"

\* C18, amended: GET / gets the index page; GET /video gets 502 when in proxy
\* mode the proxy cannot be dialled; GET /raw in device mode gets 500 when the
\* screen info cannot be read; and every request is answered once its handler
\* has returned
RoutingWithIndex ==
    \A c \in Streams :
        /\ spc[c] = "done" => status[c] /= "none"
        /\ status[c] /= "none" =>
            IF req[c].method /= "GET" THEN status[c] = "405"
            ELSE IF req[c].path = "/" THEN status[c] = "200 text/html"
            ELSE IF req[c].path = "/video"
            THEN /\ status[c] \in
                        (IF mode = "proxy"
                         THEN {"200 multipart/x-mixed-replace", "502"}
                         ELSE {"200 multipart/x-mixed-replace"})
                 /\ PartsAre(c, ImagePng)
            ELSE IF req[c].path = "/raw"
            THEN /\ status[c] \in
                        (IF mode = "proxy"
                         THEN {"501"}
                         ELSE {"200 multipart/x-mixed-replace", "500"})
                 /\ PartsAre(c, OctetStream)
            ELSE status[c] = "404"

\* C18 witness: in the same server GET / got the index page and GET /raw has
\* streamed a frame
IndexAndRawServed ==
    \E c \in Streams, d \in Streams :
        /\ req[c] = [method |-> "GET", path |-> "/"] /\ status[c] = "200 text/html"
        /\ req[d] = [method |-> "GET", path |-> "/raw"] /\ flushed[d] >= 1

(* ---------------------------------------------------------------------- *)
(* Properties of the order of frames                                      *)
(* ---------------------------------------------------------------------- *)

\* the captures a consumer of forEach has emitted are in capture order,
\* without a repetition
Increasing(e) == \A a, b \in 1..Len(e) : a < b => e[a] < e[b]

\* C26: on a connection of serveRaw or serveVideo a frame is written to a part
\* only when it was read since the last write, a frame is read only when the
\* part written before was flushed, and the part written last holds the
\* frame read last; and what a consumer of forEach has emitted are captures
\* of context.read in increasing order, each at most once
CaptureOrder ==
    /\ \A c \in Streams :
            /\ ~disorder[c]
            /\ hold[c] \in {"emitted", "flushed"} =>
                    /\ Len(wire[c]) >= 1
                    /\ wire[c][Len(wire[c])].wrote = "frame"
                    /\ wire[c][Len(wire[c])].body = sim[c].Pix
    /\ \A k \in Streams :
            /\ Increasing(bemit[k])
            /\ \A a \in 1..Len(bemit[k]) : bemit[k][a] \in 1..bcaps

\* C26 witness: of three captures one consumer of forEach has emitted all and
\* the other, being slow, has missed the second
SlowConsumerMissedOne ==
    /\ bcaps = 3
    /\ bemit[1] = <<1, 2, 3>>
    /\ bemit[2] = <<1, 3>>

====
